---- MODULE Spec2Model ----
(***************************************************************************)
(* Model of the resumable crawl engine of OpenPapers:                      *)
(*   scrapers/base.py  BaseScraper.scrape_year / download_pdf              *)
(*   utils.py          save_papers / load_papers / RobustSession           *)
(* One partition (conference, year).  The disk holds the checkpoint file   *)
(* <conf>_<year>.json, its backup <conf>_<year>.json.bak, and the PDF      *)
(* files.  A run of scrape_year is cut into steps at the points where an   *)
(* interrupt (KeyboardInterrupt, process kill) can separate two effects.   *)
(* One RobustSession: get is cut at each request, between its being sent   *)
(* and its coming back; time is counted in ticks of a tenth of a second.   *)
(* external/papercopilot.py  process_conference_year, one iteration of    *)
(* its loops per step; and two scrape_year runs for two partitions over    *)
(* one data directory, cut at the same points as the single run.           *)
(***************************************************************************)
EXTENDS Integers, Sequences, FiniteSets, TLC

\* ---------------------------------------------------------------- bounds
MaxIds == 3         \* longest identifier list of the small scenarios
BatchSmall == 2     \* the short identifier list of the batch scenarios
BatchIds == 12      \* the long identifier list of the batch scenarios
MaxRuns == 2        \* scrape_year runs, and process_conference_year calls,
                    \* in one behaviour
MaxFaults == 3      \* departures from the plain run in one behaviour of Spec
BatchFaults == 2    \* the same, in one behaviour of SpecBatch
MaxRetry == 2       \* largest retry_attempts of the sessions of SpecGet
                    \* that face every kind of response
MaxGets == 2        \* get calls, and download_file calls, in one behaviour
MaxBad == 3         \* departures from the plain exchange in one behaviour
MaxSlips == 2       \* departures from the plain conversion in one behaviour
MaxYears == 3       \* years in the list given to a loop over years

\* ------------------------------------------------------ program constants
SAVE_EVERY == 10    \* base.py:134  new_count % 10
TicksPerSecond == 10           \* utils.py:50  the jitter is up to 0.1 s
DEFAULT_RETRY_ATTEMPTS == 3    \* config.py:19
DEFAULT_RETRY_AFTER == 60      \* utils.py:63
BATCH_SIZE == 10               \* papercopilot.py:19

VARIABLES
    file,            \* METADATA_DIR/<conf>/<conf>_<year>.json
    bak,             \* the same path with suffix .json.bak
    pdfs,            \* names of the files that exist under
                     \* PAPERS_DIR/<conf>/<year>
    sizes,           \* the lengths the site's paper list can have
    site,            \* the number of papers the site lists now
    listings,        \* the ways a get_paper_urls call can come out
    faults,          \* departures from the plain run still allowed: a
                     \* failure, an interrupt, a non-default argument
    run,             \* number of scrape_year runs started
    pc,              \* position inside scrape_year
    resume, download_pdfs,            \* arguments of the current run
    paper_urls, existing_papers, papers, i, new_count, failed_count,
    saveRet,         \* where save_papers returns to: "loop" or "final"
    outcome,         \* how the last run ended
    returned,        \* the list the last run returned
    parseCalls,      \* identifiers given to parse_paper in this run
    dlAttempts,      \* identifiers given to session.download_file in this run
    dlCalls,         \* identifiers whose download issued a network request
    dlFailed,        \* identifiers whose download_pdf returned False in this
                     \* run after a call of download_file
    okPos,           \* list positions whose parse yielded a titled paper
    badPos,          \* list positions that were skipped as failed
    intSwallowed,    \* an interrupt raised in this run was caught by a handler
    finalSaved,      \* the final save_papers call of this run was made
    saveFailed,      \* a save_papers call of this run swallowed an exception
    wrote,           \* a save_papers call of this run completed its write
    lastSave,        \* the last save_papers call: the file before it, the
                     \* list given to it, how far it got, and whether
                     \* any save_papers call so far ran to its end
    intAt,           \* pc at which the run was interrupted
    file0,           \* the checkpoint file as it was when the run started
    prev             \* summary of the run before the current one

\* One RobustSession (utils.py:23-32) and the clock it reads, in ticks.
VARIABLES
    now,             \* time.time()
    delay, retry_attempts,            \* arguments of the constructor
    last_request, rate_limited_until, \* fields of the session
    gpc,             \* position inside get: "idle", "attempt", "sent"
    attempt,         \* the loop variable of get
    result,          \* what the last get call handed back
    resps,           \* the responses the current get call has received
    reqAt, prevReq,  \* when the last two requests of the session began
    respAt,          \* when the last response arrived
    firstReq,        \* when the first request of the current get call began
    lastSleep,       \* length of the last backoff sleep
    limitMax,        \* the latest deadline any 429 response has set
    gets,            \* get calls made so far
    served,          \* the responses the site can answer with
    tfaults,         \* departures from the plain exchange still allowed: a
                     \* response other than 200, a failed write, a pause
                     \* before a call, a jitter, a slow answer
    dest,            \* the file at the download destination
    dpc,             \* position inside download_file: "idle", "get"
    dlLog,           \* one entry per download_file call
    dlCase           \* what the last download_file call met: what get
                     \* returned, the body, how the write went

\* ============================================ external/papercopilot.py
\* process_conference_year: one conference year of a raw list is turned
\* into records under METADATA_DIR, its documents under PAPERS_DIR.
VARIABLES
    iclr,            \* the conference is 'iclr' (get_pdf_url builds the URL)
    noPdf,           \* ids whose raw entry has no 'pdf' value
    noTitle,         \* ids whose raw entry has no 'title' key
    raw_papers,      \* the raw list after the status filter ("papers")
    output,          \* METADATA_DIR/<conf>/<conf>_<year>.json
    save_dir,        \* ids whose PDF file exists under PAPERS_DIR/<conf>/<year>
    slips,           \* departures from the plain conversion still allowed
    pruns,           \* number of process_conference_year calls started
    ppc,             \* position inside process_conference_year
    start_index,     \* argument of the current call
    down,            \* no document can be fetched during the current call
    existing_cleaned, cleaned, papers_to_process, papers_needing_pdf_retry,
    ri, ni,          \* positions in the retry loop and in the loop of new papers
    processed_count, successful_downloads, skipped_downloads, retry_downloads,
    pOutcome,        \* how the last call ended: "no raw file", "raised",
                     \* "interrupted", "returned" (after the final save)
    preturned,       \* what the last call returned
    plog,            \* the items the two loops handled, in order, and
                     \* whether a document request was made for each
    output0,         \* the output file as the call found it
    pSaveFailed      \* a save_json call of this call raised

\* Two scrapers, each with its session, run scrape_year for two conference
\* years over one data directory.
VARIABLES
    qpart,           \* runner -> the (conference, year) of its scrape_year call
    qlen,            \* runner -> the length of the listing of its partition
    qfs,             \* path under METADATA_DIR -> the file there
    qpdfs,           \* the paths under PAPERS_DIR at which a file exists
    qpc,             \* runner -> position inside scrape_year
    qret,            \* runner -> where its save_papers call returns to
    qpapers, qi, qnew,  \* runner -> papers, the loop index, new_count
    qreqs,           \* runner -> document requests its session has made
    qsaved           \* runner -> the lists its save_papers calls completed

svars == << file, bak, pdfs, sizes, site, listings, faults, run, pc, resume, download_pdfs,
            paper_urls, existing_papers, papers, i, new_count, failed_count,
            saveRet, outcome, returned, parseCalls, dlAttempts, dlCalls,
            dlFailed, okPos, badPos, intSwallowed, finalSaved, saveFailed, wrote, lastSave,
            intAt, file0, prev >>
session == << delay, retry_attempts, last_request, rate_limited_until >>
getLocals == << gpc, attempt, result, resps >>
getHist == << reqAt, prevReq, respAt, firstReq, lastSleep, limitMax >>
download == << dest, dpc, dlLog, dlCase >>
tvars == << now, session, getLocals, getHist, gets, served, tfaults, download >>
praw == << iclr, noPdf, noTitle, raw_papers >>
pdisk == << output, save_dir >>
plocals == << existing_cleaned, cleaned, papers_to_process,
              papers_needing_pdf_retry, ri, ni, processed_count,
              successful_downloads, skipped_downloads, retry_downloads >>
pargs == << start_index, down >>
phist == << pOutcome, preturned, plog, output0, pSaveFailed >>
pvars == << praw, pdisk, slips, pruns, ppc, pargs, plocals, phist >>
\* The loops over several years: scrape_multiple_years of a scraper and
\* process_conferences of the conversion.
VARIABLES
    years,           \* the list of years the loop was called with
    ypc,             \* "idle", "loop" (at the for statement), "call" (inside
                     \* the call for years[yi]), "pause" (time.sleep(2)), "over"
    yi,              \* the position in years of the current iteration
    results,         \* the dict scrape_multiple_years builds: (year, list) pairs
    ycalls,          \* the per-year calls made so far, in order
    yreqs,           \* the requests issued so far on the scraper's session
    yints,           \* the user interrupts delivered so far
    yreturned        \* how the loop function ended: "none" while it has not

qvars == << qpart, qlen, qfs, qpdfs, qpc, qret, qpapers, qi, qnew, qreqs,
           qsaved >>
yvars == << years, ypc, yi, results, ycalls, yreqs, yints, yreturned >>
notScrape == << tvars, pvars, qvars, yvars >>
notGet == << svars, pvars, qvars, yvars >>
notConvert == << svars, tvars, qvars, yvars >>
notPair == << svars, tvars, pvars, yvars >>
notYears == << svars, tvars, pvars, qvars >>
vars == << svars, tvars, pvars, qvars, yvars >>

disk == << file, bak, pdfs >>
env == << sizes, site, listings >>
locals == << paper_urls, existing_papers, papers, i, new_count, failed_count >>
args == << resume, download_pdfs >>
calls == << parseCalls, dlAttempts, dlCalls, dlFailed, okPos, badPos,
           intSwallowed >>
saves == << finalSaved, saveFailed, wrote >>

\* ------------------------------------------------------------ data model
Absent == [st |-> "absent", recs |-> << >>]
Partial == [st |-> "partial", recs |-> << >>]
Valid(l) == [st |-> "valid", recs |-> l]

\* A record as scrape_year builds it (base.py:119-122, download_pdf:64):
\* its url, whether the parse found a pdf_url, whether pdf_path was set.
Record(u, hasUrl, hasPath) == [url |-> u, pdf_url |-> hasUrl, pdf_path |-> hasPath]

Range(s) == { s[k] : k \in 1..Len(s) }
Urls(l) == { l[k].url : k \in 1..Len(l) }
Cost(b) == IF b THEN 1 ELSE 0

\* utils.py:163-164  a write that stops part-way leaves the beginning of
\* the dump on disk: text that is no JSON document, here the records before
\* the last one.
Truncated(l) == [st |-> "partial", recs |-> SubSeq(l, 1, Len(l) - 1)]

\* What a write cut off at program point at can leave at the checkpoint
\* path: before the first byte the file is as the earlier step left it.
CutFile(f, l, at) == IF at = "save2" THEN {f, Truncated(l)} ELSE {f}

\* A reader that hands back whatever records the file text holds.
LoadRaw(f) == f.recs

\* utils.py load_papers: the parsed list, [] when the file is missing or
\* json.load raises on it.
load_papers(f) == IF f.st = "valid" THEN f.recs ELSE << >>

\* base.py:83
existing_urls == Urls(existing_papers)

\* base.py:103  "if resume and url in existing_urls: continue"
NeverSkip(url) == FALSE
ShouldSkip(url) == resume /\ url \in existing_urls

\* base.py:134  "if new_count % 10 == 0"
NeverDue(n) == FALSE
BatchDue(n) == n % SAVE_EVERY = 0

\* base.py:108-117 and 138-141: what becomes of an item after parse_paper.
\* None and a missing title are counted as failed and skipped; an exception
\* is caught by the loop's handler, counted and skipped; a titled paper is
\* kept.  ("abort" is an exception leaving the loop for base.py:152-154.)
ParseResults == {"none", "notitle", "raise", "paper"}
FateUncaught(res) ==
    CASE res = "paper" -> "keep" [] res = "raise" -> "abort" [] OTHER -> "skip"
ItemFate(res) == IF res = "paper" THEN "keep" ELSE "skip"

\* The title parse_paper reads from the page of identifier u, as far as a
\* file name shows it (its first 50 characters, sanitized): papers of one
\* listing can bear the same title.
TitleOf(u) == u % 2

\* utils.py:199-209  get_paper_filename: "<id>_<title>.pdf" from the id and
\* the title of the parsed paper (scrapers take the id from the identifier
\* of the page), and base.py:56-59 the path under PAPERS_DIR/<conf>/<year>.
StampedName(u) == << u, TitleOf(u), run >>
get_paper_filename(u) == << u, TitleOf(u) >>

\* base.py:63-64  "if success: paper['pdf_path'] = str(pdf_path)": whether
\* download_pdf sets pdf_path, given what download_file returned.
PathAlways(success) == TRUE
PathSet(success) == success

\* base.py:125-130  the list after the download step of a parsed paper: the
\* result of download_pdf is logged and the paper is appended either way.
DropUnfetched(l, u, hasUrl, hasPath) ==
    IF hasUrl /\ ~hasPath THEN l ELSE Append(l, Record(u, hasUrl, hasPath))
Appended(l, u, hasUrl, hasPath) == Append(l, Record(u, hasUrl, hasPath))

\* utils.py:158-160  the backup path after the rename of an existing file
\* (Path.rename replaces an existing backup).
NoBackup(f, b) == b
Renamed(f, b) == IF f.st # "absent" THEN f ELSE b

\* utils.py:163-164  the file once json.dump has completed
Dumped(l) == Valid(l)

\* get_paper_urls: the site's papers in listing order
SiteUrls(n) == [k \in 1..n |-> k]

\* base.py:86  what get_paper_urls hands to scrape_year: the listing
\* ("ok"); [] when its request failed ("empty") and nothing when it raises
\* ("raise"); the listing with its first identifier named a second time,
\* as a site does that links one paper from two places ("twice").
\* What scrape_year does with a list it takes for empty.
GoesOn(l) == FALSE

\* base.py:87  "if not paper_urls"
NoneListed(l) == l = << >>

Plain == {"ok", "empty", "raise"}
Listed(listing, n) ==
    CASE listing = "ok" -> SiteUrls(n)
      [] listing = "twice" /\ n > 0 -> Append(SiteUrls(n), 1)
      [] OTHER -> << >>

\* ------------------------------------------------------------- transport
\* config.py:18  DEFAULT_REQUEST_DELAY = 1.0 seconds
DEFAULT_REQUEST_DELAY == TicksPerSecond

\* The delay a session is built with: the default, or a fifth of it.
Delays == {DEFAULT_REQUEST_DELAY \div 5, DEFAULT_REQUEST_DELAY}

\* utils.py:50  random.uniform(0, 0.1): nothing, or a tick
Jitter == {0, 1}

\* Time a request takes to come back: none to speak of, or a tick.
Latency == {0, 1}

\* Time that passes between two calls on the session.
Gaps == {0, 2 * DEFAULT_REQUEST_DELAY}

\* What a request can come back with: a status code, with the Retry-After
\* header (absent << >>, or << seconds >>) on a 429, or an exception of
\* the requests library.
Statuses == {"200", "204", "400", "403", "404", "500", "timeout", "connection"}
\* The Retry-After header of a 429: none, a number of seconds, or an
\* HTTP-date (written as its day and its month).
Headers == {<< >>, <<0>>, <<2>>, <<21, 10>>}
Responses ==
    [status : Statuses, header : {<< >>}] \cup [status : {"429"}, header : Headers]

\* A site that is down: every request fails in a way get retries.
Failing == [status : {"500", "timeout", "connection"}, header : {<< >>}]

\* utils.py:64  int(retry_after) takes the default and a number of seconds;
\* on any other text it raises ValueError.
Parses(h) == Len(h) <= 1

\* utils.py:63-64  int(response.headers.get('Retry-After', 60)), in ticks
RetryAfter(resp) ==
    TicksPerSecond * (IF resp.header = << >> THEN DEFAULT_RETRY_AFTER
                                              ELSE resp.header[1])

RECURSIVE Pow2(_)
Pow2(n) == IF n = 0 THEN 1 ELSE 2 * Pow2(n - 1)

\* utils.py:69,82,86,92  time.sleep(2 ** attempt), in ticks
NoBackoff(a) == 0
Backoff(a) == TicksPerSecond * Pow2(a)

\* utils.py:40-43  the sleep until the rate-limit deadline, at time t
NoLimitWait(t, until) == 0
LimitWait(t, until) == IF t < until THEN until - t ELSE 0

\* utils.py:46-51  the sleep that keeps requests apart, without the jitter
NoDelayWait(elapsed, d) == 0
DelayWait(elapsed, d) == IF elapsed < d THEN d - elapsed ELSE 0

\* utils.py:59-92  the branch of get a response takes:
\*   "return"   the response is handed back               (59-60)
\*   "limited"  the deadline is set, then continue         (61-65)
\*   "backoff"  sleep 2^attempt, then the next attempt     (66-70, 80-86)
\*   "none"     return None                                (71-76)
\*   "error"    raise_for_status raises, caught at 88: return None on the
\*              last attempt, else sleep 2^attempt         (77-78, 88-92)
\*   "next"     raise_for_status does not raise: the loop goes on (77-78)
RetryNotFound(status) ==
    CASE status = "200" -> "return"
      [] status = "429" -> "limited"
      [] status \in {"400"} -> "error"
      [] status = "204" -> "next"
      [] OTHER -> "backoff"
Return2xx(status) ==
    CASE status \in {"200", "204"} -> "return"
      [] status = "429" -> "limited"
      [] status \in {"500", "timeout", "connection"} -> "backoff"
      [] status \in {"404", "403"} -> "none"
      [] status = "400" -> "error"
Branch(status) ==
    CASE status = "200" -> "return"
      [] status = "429" -> "limited"
      [] status \in {"500", "timeout", "connection"} -> "backoff"
      [] status \in {"404", "403"} -> "none"
      [] status = "400" -> "error"
      [] status = "204" -> "next"

\* utils.py:37  range(self.retry_attempts + 1), with retry_attempts = n, has
\* another attempt after attempt a
OneFewer(a, n) == a + 1 < n
OneMore(a, n) == a <= n
HasNext(a, n) == a < n

\* utils.py:122-144  the destination after the body was handled.  body is
\* "full" or "empty"; io is how the write went: "ok"; "failed", an
\* exception on the way and the file removed by the handler (or never
\* created); "left", the same with the removal failing too (142-143);
\* "interrupt", a KeyboardInterrupt while chunks are being written, which
\* no clause of download_file catches.
Written(body, io) ==
    CASE io = "ok" -> (IF body = "full" THEN "complete" ELSE "empty")
      [] io = "failed" -> "absent"
      [] OTHER -> "partial"

\* utils.py:134,144  what download_file hands back; an interrupt leaves it
\* without a return value
Verdict(body, io) ==
    CASE io = "ok" -> "True"
      [] io = "interrupt" -> "interrupted"
      [] OTHER -> "False"

NoCase == [fetch |-> "none", body |-> "none", io |-> "none"]

\* utils.py:107  filepath.exists()
NeverExists(d) == FALSE
Exists(d) == d # "absent"

\* utils.py:23-32  the session as constructed with retry_attempts n and
\* delay d, at a time far from the epoch, nothing requested yet.
SessionInit(n, d) ==
    /\ now = 2 * DEFAULT_REQUEST_DELAY
    /\ delay = d /\ retry_attempts = n
    /\ last_request = 0 /\ rate_limited_until = 0
    /\ gpc = "idle" /\ attempt = 0 /\ result = "none" /\ resps = << >>
    /\ reqAt = -1 /\ prevReq = -1 /\ respAt = -1 /\ firstReq = -1
    /\ lastSleep = 0 /\ limitMax = 0
    /\ gets = 0
    /\ dest = "absent" /\ dpc = "idle" /\ dlLog = << >>
    /\ dlCase = NoCase

\* ------------------------------------------------- two runs side by side
Runners == {1, 2}
Conferences == {"aaai", "iclr"}
Years == {2023, 2024}
Partitions == Conferences \X Years

\* utils.py:152-155  METADATA_DIR / conference / f"{conference}_{year}.json"
PathByConference(c, y) == << "metadata", c, << c >>, "json" >>
CheckpointPath(c, y) == << "metadata", c, << c, y >>, "json" >>

\* utils.py:159  filepath.with_suffix('.json.bak')
BackupPath(c, y) == << "metadata", c, << c, y >>, "json.bak" >>

\* base.py:56-59  PAPERS_DIR / conference / str(year) / filename
PdfPath(c, y, u) == << "papers", c, y, get_paper_filename(u) >>

MetadataPaths ==
    { CheckpointPath(pt[1], pt[2]) : pt \in Partitions }
      \cup { BackupPath(pt[1], pt[2]) : pt \in Partitions }

\* base.py:119-122  a record carries its conference, year and url
QRecord(pt, u) ==
    [url |-> << pt[1], pt[2], u >>, pdf_url |-> TRUE, pdf_path |-> TRUE]

\* The list a run over a listing of n papers builds when it runs alone on
\* an empty data directory and nothing fails.
Alone(pt, n) == [k \in 1..n |-> QRecord(pt, k)]

cp(r) == CheckpointPath(qpart[r][1], qpart[r][2])
bk(r) == BackupPath(qpart[r][1], qpart[r][2])

\* No second scraper.
NoPair ==
    /\ qpart = << >> /\ qlen = << >> /\ qfs = << >> /\ qpdfs = {}
    /\ qpc = << >> /\ qret = << >> /\ qpapers = << >> /\ qi = << >>
    /\ qnew = << >> /\ qreqs = << >> /\ qsaved = << >>

\* what a call returns: nothing (None) or a list
NoList == [isList |-> FALSE, list |-> << >>]
AList(l) == [isList |-> TRUE, list |-> l]

\* process_conference_year has not been called.
ConvertIdle ==
    /\ ppc = "idle" /\ pruns = 0 /\ start_index = 0 /\ down = FALSE
    /\ output = Absent /\ save_dir = {}
    /\ existing_cleaned = << >> /\ cleaned = << >>
    /\ papers_to_process = << >> /\ papers_needing_pdf_retry = << >>
    /\ ri = 1 /\ ni = 1
    /\ processed_count = 0 /\ successful_downloads = 0
    /\ skipped_downloads = 0 /\ retry_downloads = 0
    /\ pOutcome = "none" /\ preturned = NoList /\ plog = << >>
    /\ output0 = Absent /\ pSaveFailed = FALSE

\* No raw list: the conversion has nothing to run on.
NoConvert ==
    /\ ConvertIdle
    /\ iclr = FALSE /\ noPdf = {} /\ noTitle = {} /\ raw_papers = << >>
    /\ slips = 0

\* No loop over years is running.
NoYears ==
    /\ years = << >> /\ ypc = "idle" /\ yi = 1 /\ results = {}
    /\ ycalls = << >> /\ yreqs = 0 /\ yints = 0 /\ yreturned = "none"

\* ------------------------------------------------------------------ Init
InitCommon ==
    /\ file = Absent /\ bak = Absent /\ pdfs = {}
    /\ run = 0 /\ pc = "idle"
    /\ resume = TRUE /\ download_pdfs = TRUE
    /\ paper_urls = << >> /\ existing_papers = << >> /\ papers = << >>
    /\ i = 1 /\ new_count = 0 /\ failed_count = 0
    /\ saveRet = "final" /\ outcome = "none" /\ returned = << >>
    /\ parseCalls = {} /\ dlAttempts = {} /\ dlCalls = {} /\ dlFailed = {}
    /\ okPos = {} /\ badPos = {} /\ intSwallowed = FALSE
    /\ finalSaved = FALSE /\ saveFailed = FALSE /\ wrote = FALSE
    /\ lastSave = [prior |-> Absent, new |-> << >>, at |-> "none",
                   done |-> FALSE]
    /\ intAt = "none" /\ file0 = Absent
    /\ prev = [outcome |-> "none", returned |-> << >>, urls |-> << >>,
               new_count |-> 0, docs |-> {}]

Init ==
    /\ InitCommon /\ listings = Plain /\ NoYears
    /\ sizes = 0..MaxIds /\ site \in sizes /\ faults = MaxFaults
    /\ SessionInit(DEFAULT_RETRY_ATTEMPTS, DEFAULT_REQUEST_DELAY)
    /\ served = Responses /\ tfaults = 0
    /\ NoConvert /\ NoPair

InitBatch ==
    /\ InitCommon /\ listings = Plain /\ NoYears
    /\ sizes = {BatchSmall, BatchIds} /\ site \in sizes /\ faults = BatchFaults
    /\ SessionInit(DEFAULT_RETRY_ATTEMPTS, DEFAULT_REQUEST_DELAY)
    /\ served = Responses /\ tfaults = 0
    /\ NoConvert /\ NoPair

\* The crawl stays idle.  Sessions of every small retry_attempts and delay
\* against a site that answers anything, and a session with one retry more
\* than the default against a site that is down.
InitGet ==
    /\ InitCommon /\ listings = Plain /\ NoYears
    /\ sizes = {0} /\ site = 0 /\ faults = 0
    /\ \/ /\ \E n \in 0..MaxRetry, d \in Delays : SessionInit(n, d)
          /\ served = Responses /\ tfaults = MaxBad
       \/ /\ SessionInit(DEFAULT_RETRY_ATTEMPTS + 1, DEFAULT_REQUEST_DELAY)
          /\ served = Failing /\ tfaults = retry_attempts + 1
    /\ NoConvert /\ NoPair

\* --------------------------------------------------------------- actions
\* base.py:75-96 and 152-154  the start of scrape_year up to the loop.  The
\* site may have listed more papers since the last run; get_paper_urls
\* returns the listing ("ok"), returns [] when its request fails ("empty"),
\* or raises, which scrape_year logs and raises again ("raise").
StartRun ==
    /\ pc = "idle" /\ run < MaxRuns
    /\ run' = run + 1
    /\ site' \in { n \in sizes : n >= site }
    /\ \E r \in BOOLEAN, d \in BOOLEAN, listing \in listings :
        /\ LET cost == Cost(listing # "ok") + Cost(~r) + Cost(~d) IN
             faults >= cost /\ faults' = faults - cost
        /\ resume' = r /\ download_pdfs' = d
        /\ existing_papers' = IF r THEN load_papers(file) ELSE << >>
        /\ paper_urls' = Listed(listing, site')
        /\ CASE listing = "raise" ->
                  /\ pc' = "idle" /\ outcome' = "raised"
                  /\ returned' = << >> /\ papers' = << >>
             [] NoneListed(paper_urls') ->
                  /\ pc' = "idle" /\ outcome' = "returned"
                  /\ returned' = existing_papers' /\ papers' = << >>
             [] OTHER ->
                  /\ pc' = "loop" /\ outcome' = "running"
                  /\ returned' = << >> /\ papers' = existing_papers'
    /\ i' = 1 /\ new_count' = 0 /\ failed_count' = 0
    /\ saveRet' = "final"
    /\ parseCalls' = {} /\ dlAttempts' = {} /\ dlCalls' = {}
    /\ dlFailed' = {}
    /\ okPos' = {} /\ badPos' = {} /\ intSwallowed' = FALSE
    /\ finalSaved' = FALSE /\ saveFailed' = FALSE /\ wrote' = FALSE
    /\ intAt' = "none" /\ file0' = file
    /\ prev' = [outcome |-> outcome, returned |-> returned, urls |-> paper_urls,
                new_count |-> new_count,
                docs |-> prev.docs \cup (dlCalls \ dlFailed)]
    /\ UNCHANGED << disk, sizes, listings, lastSave >>
    /\ UNCHANGED notScrape

\* utils.py:147-156  save_papers is entered with the list l.
SaveBegins(l, ret) ==
    /\ pc' = "save0" /\ saveRet' = ret
    /\ lastSave' = [prior |-> file, new |-> l, at |-> "save0",
                    done |-> lastSave.done]

\* After an append: the periodic save when due, else the next item.
AfterAppend(n, l) ==
    IF BatchDue(n)
      THEN SaveBegins(l, "loop")
      ELSE pc' = "loop" /\ UNCHANGED << saveRet, lastSave >>

\* base.py:98-141  one iteration of the loop, up to the periodic save.
ProcessItem ==
    /\ pc = "loop" /\ i <= Len(paper_urls)
    /\ LET url == paper_urls[i] IN
        IF ShouldSkip(url)
          THEN /\ i' = i + 1
               /\ UNCHANGED << papers, new_count, failed_count, pdfs, faults,
                               pc, saveRet, lastSave, calls, outcome >>
          ELSE
            /\ parseCalls' = parseCalls \cup {url}
            /\ \E res \in ParseResults, hasUrl \in BOOLEAN, ok \in BOOLEAN,
                  sw \in BOOLEAN :
                LET fate == ItemFate(res)
                    try == fate = "keep" /\ download_pdfs /\ hasUrl  \* base.py:49,125
                    have == get_paper_filename(url) \in pdfs          \* utils.py:107
                    success == try /\ (have \/ ok)           \* utils.py:107-134
                    got == fate = "keep" /\ PathSet(success)       \* base.py:63
                    cost == Cost(res # "paper") + Cost(~hasUrl)
                              + Cost(try /\ ~have /\ ~ok) + Cost(sw)
                IN  \* hasUrl is read only of a paper, ok only by a request
                    /\ res # "paper" => hasUrl
                    /\ ok \/ (try /\ ~have)
                    \* utils.py:136-144  a download that failed on an
                    \* exception removes its file inside try/except-all:
                    \* an interrupt raised there is caught like any
                    \* exception and download_file returns False
                    /\ sw => (try /\ ~have /\ ~ok)
                    /\ intSwallowed' = (intSwallowed \/ sw)
                    /\ faults >= cost /\ faults' = faults - cost
                    /\ dlAttempts' = IF try THEN dlAttempts \cup {url}
                                            ELSE dlAttempts
                    /\ dlCalls' = IF try /\ ~have THEN dlCalls \cup {url}
                                                   ELSE dlCalls
                    /\ dlFailed' = IF try /\ ~success THEN dlFailed \cup {url}
                                                     ELSE dlFailed
                    /\ pdfs' = IF success THEN pdfs \cup {get_paper_filename(url)}
                                           ELSE pdfs
                    /\ okPos' = IF res = "paper" THEN okPos \cup {i} ELSE okPos
                    /\ badPos' = IF res # "paper" THEN badPos \cup {i} ELSE badPos
                    /\ CASE fate = "keep" ->
                              /\ papers' = Appended(papers, url, hasUrl, got)
                              /\ new_count' = new_count + 1
                              /\ i' = i + 1
                              /\ AfterAppend(new_count', papers')
                              /\ UNCHANGED << failed_count, outcome >>
                         [] fate = "skip" ->
                              /\ failed_count' = failed_count + 1
                              /\ i' = i + 1
                              /\ UNCHANGED << papers, new_count, pc, saveRet,
                                              lastSave, outcome >>
                         [] OTHER ->
                              /\ pc' = "idle" /\ outcome' = "raised"
                              /\ UNCHANGED << papers, new_count, failed_count,
                                              i, saveRet, lastSave >>
    /\ UNCHANGED << file, bak, env, run, args, paper_urls, existing_papers,
                    returned, saves, intAt, file0, prev >>
    /\ UNCHANGED notScrape

\* base.py:143-144  the loop is over: the final save_papers call begins.
FinalSave ==
    /\ pc = "loop" /\ i > Len(paper_urls)
    /\ SaveBegins(papers, "final")
    /\ UNCHANGED << disk, env, faults, run, args, locals, outcome, returned,
                    calls, saves, intAt, file0, prev >>
    /\ UNCHANGED notScrape

\* utils.py:152-161  mkdir, and the existing file renamed to the backup.
SaveRename ==
    /\ pc = "save0"
    /\ bak' = Renamed(file, bak)
    /\ file' = Absent
    /\ pc' = "save1"
    /\ lastSave' = [lastSave EXCEPT !.at = "save1"]
    /\ UNCHANGED << pdfs, env, faults, run, args, locals, saveRet, outcome,
                    returned, calls, saves, intAt, file0, prev >>
    /\ UNCHANGED notScrape

\* utils.py:163  open(filepath, 'w') creates the empty file.
SaveOpen ==
    /\ pc = "save1"
    /\ file' = Partial
    /\ pc' = "save2"
    /\ lastSave' = [lastSave EXCEPT !.at = "save2"]
    /\ UNCHANGED << bak, pdfs, env, faults, run, args, locals, saveRet, outcome,
                    returned, calls, saves, intAt, file0, prev >>
    /\ UNCHANGED notScrape

\* Where save_papers hands control back: base.py:136 in the loop, or
\* base.py:146-150 after the final save, where scrape_year returns papers.
SaveReturns ==
    IF saveRet = "loop"
      THEN pc' = "loop" /\ UNCHANGED << outcome, returned, finalSaved >>
      ELSE /\ pc' = "idle" /\ outcome' = "returned" /\ returned' = papers
           /\ finalSaved' = TRUE

\* utils.py:164-166  json.dump completes and the file is closed.
SaveWrite ==
    /\ pc = "save2"
    /\ file' = Dumped(lastSave.new)
    /\ wrote' = TRUE
    /\ lastSave' = [lastSave EXCEPT !.at = "done", !.done = TRUE]
    /\ SaveReturns
    /\ UNCHANGED << bak, pdfs, env, faults, run, args, locals, saveRet,
                    calls, saveFailed, intAt, file0, prev >>
    /\ UNCHANGED notScrape

\* utils.py:168-169  an exception inside save_papers (mkdir, rename, open,
\* write) is logged and swallowed; the disk stays as the failed step left
\* it, a write that failed part-way included.
SaveFail ==
    /\ pc \in {"save0", "save1", "save2"}
    /\ faults > 0 /\ faults' = faults - 1
    /\ saveFailed' = TRUE
    /\ file' \in CutFile(file, lastSave.new, pc)
    /\ SaveReturns
    /\ UNCHANGED << bak, pdfs, env, run, args, locals, saveRet, calls, wrote,
                    lastSave, intAt, file0, prev >>
    /\ UNCHANGED notScrape

\* A KeyboardInterrupt (or the process being killed) is no Exception: no
\* handler of base.py:138, base.py:152 or utils.py:168 catches it, so it
\* leaves scrape_year at once.  One raised inside an item's download may
\* leave that item's PDF file behind.
Interrupt ==
    /\ pc \in {"loop", "save0", "save1", "save2"}
    /\ faults > 0 /\ faults' = faults - 1
    /\ intAt' = pc
    /\ pc' = "idle" /\ outcome' = "interrupted"
    /\ \E left \in BOOLEAN :
        /\ left => /\ pc = "loop" /\ i <= Len(paper_urls) /\ download_pdfs
                   /\ ~ShouldSkip(paper_urls[i])
                   /\ get_paper_filename(paper_urls[i]) \notin pdfs
        /\ pdfs' = IF left THEN pdfs \cup {get_paper_filename(paper_urls[i])}
                           ELSE pdfs
    /\ file' \in CutFile(file, lastSave.new, pc)
    /\ UNCHANGED << bak, env, run, args, locals, saveRet, returned,
                    calls, saves, lastSave, file0, prev >>
    /\ UNCHANGED notScrape

Next ==
    \/ StartRun
    \/ ProcessItem
    \/ FinalSave
    \/ SaveRename
    \/ SaveOpen
    \/ SaveWrite
    \/ SaveFail
    \/ Interrupt

Spec == Init /\ [][Next]_vars

SpecBatch == InitBatch /\ [][Next]_vars

\* Runs over short listings that may name an identifier twice.
InitTwice ==
    /\ InitCommon /\ listings = {"ok", "twice"} /\ NoYears
    /\ sizes = 1..MaxIds /\ site \in sizes /\ faults = BatchFaults
    /\ SessionInit(DEFAULT_RETRY_ATTEMPTS, DEFAULT_REQUEST_DELAY)
    /\ served = Responses /\ tfaults = 0
    /\ NoConvert /\ NoPair

SpecTwice == InitTwice /\ [][Next]_vars

\* ----------------------------------------------------- transport actions
\* utils.py:34-37  get is entered, gap ticks after the last call returned.
GetBegins(gap) ==
    /\ now' = now + gap
    /\ tfaults >= Cost(gap > 0) /\ tfaults' = tfaults - Cost(gap > 0)
    /\ gpc' = "attempt" /\ attempt' = 0 /\ result' = "none" /\ resps' = << >>
    /\ firstReq' = -1
    /\ gets' = gets + 1
    /\ UNCHANGED << session, reqAt, prevReq, respAt, lastSleep, limitMax,
                    served >>

\* A caller other than download_file calls get (base.py: the scrapers'
\* get_paper_urls and parse_paper).
GetCall ==
    /\ gpc = "idle" /\ dpc = "idle" /\ gets < MaxGets
    /\ \E gap \in Gaps : GetBegins(gap)
    /\ UNCHANGED download
    /\ UNCHANGED notGet

\* utils.py:39-56  one attempt up to the request: the wait for the
\* rate-limit deadline, the wait that keeps requests apart, last_request,
\* and the request itself.
Request ==
    /\ gpc = "attempt"
    /\ \E j \in Jitter :
        LET t1 == now + LimitWait(now, rate_limited_until)
            wait == DelayWait(t1 - last_request, delay)
            t2 == t1 + wait + j
        IN  /\ wait = 0 => j = 0
            /\ tfaults >= j /\ tfaults' = tfaults - j
            /\ now' = t2 /\ last_request' = t2
            /\ prevReq' = reqAt /\ reqAt' = t2
            /\ firstReq' = IF firstReq < 0 THEN t2 ELSE firstReq
    /\ gpc' = "sent"
    /\ dlLog' = IF dpc = "get"
                  THEN [dlLog EXCEPT ![Len(dlLog)].reqs = @ + 1]
                  ELSE dlLog
    /\ UNCHANGED dlCase
    /\ UNCHANGED << delay, retry_attempts, rate_limited_until, attempt, result,
                    resps, respAt, lastSleep, limitMax, gets, served,
                    dest, dpc >>
    /\ UNCHANGED notGet

\* get returns r.
Returns(r) == gpc' = "idle" /\ result' = r /\ attempt' = attempt

\* utils.py:37,94-95  the for loop goes to its next attempt, or is over:
\* "All retry attempts failed", return None.
Continue ==
    IF HasNext(attempt, retry_attempts)
      THEN gpc' = "attempt" /\ attempt' = attempt + 1 /\ result' = result
      ELSE Returns("None")

\* utils.py:56-92  the request comes back after d ticks and get handles the
\* outcome, the backoff sleep included.
Response ==
    /\ gpc = "sent"
    /\ \E resp \in served, d \in Latency :
        LET t == now + d
            br == Branch(resp.status)
            cost == Cost(resp.status # "200") + Cost(d > 0)
            last == attempt = retry_attempts                  \* utils.py:90
            sleeps == br = "backoff" \/ (br = "error" /\ ~last)
            nap == IF sleeps THEN Backoff(attempt) ELSE 0
            \* utils.py:64  ValueError is no RequestException: no clause
            \* of get catches it
            parsed == br = "limited" /\ Parses(resp.header)
            hint == IF parsed THEN RetryAfter(resp) ELSE 0
        IN  /\ tfaults >= cost /\ tfaults' = tfaults - cost
            /\ resps' = Append(resps, resp)
            /\ respAt' = t
            /\ now' = t + nap
            /\ lastSleep' = IF sleeps THEN nap ELSE lastSleep
            /\ rate_limited_until' = IF parsed THEN t + hint
                                                ELSE rate_limited_until
            /\ limitMax' = IF parsed /\ t + hint > limitMax
                              THEN t + hint ELSE limitMax
            /\ CASE br = "return" -> Returns("response")
                 [] br = "limited" /\ ~parsed -> Returns("ValueError")
                 [] br = "none" -> Returns("None")
                 [] br = "error" /\ last -> Returns("None")
                 [] OTHER -> Continue
    /\ UNCHANGED << delay, retry_attempts, last_request, reqAt, prevReq,
                    firstReq, gets, served, download >>
    /\ UNCHANGED notGet

\* utils.py:103-111  download_file is entered: it returns True at once
\* when the destination exists, else it calls get.
DownloadCall ==
    /\ gpc = "idle" /\ dpc = "idle" /\ Len(dlLog) < MaxGets
    /\ dlCase' = NoCase
    /\ IF Exists(dest)
         THEN /\ dlLog' = Append(dlLog, [dest0 |-> dest, gets |-> 0, reqs |-> 0,
                                         ret |-> "True"])
              /\ UNCHANGED << now, session, getLocals, getHist, gets, served,
                              tfaults, dest, dpc >>
         ELSE /\ gets < MaxGets
              /\ \E gap \in Gaps : GetBegins(gap)
              /\ dpc' = "get"
              /\ dlLog' = Append(dlLog, [dest0 |-> dest, gets |-> 1, reqs |-> 0,
                                         ret |-> "pending"])
              /\ UNCHANGED dest
    /\ UNCHANGED notGet

\* download_file returns r.
DownloadReturns(r) ==
    /\ dpc' = "idle"
    /\ dlLog' = [dlLog EXCEPT ![Len(dlLog)].ret = r]

\* utils.py:112-144  get has returned: False for no response, and for an
\* exception out of get, which the handler of download_file catches; else the
\* body, with or without content, is streamed into the file and True
\* returned, or an exception on the way removes the file (unless the
\* removal fails too) and False is returned, or an interrupt during the
\* write leaves download_file with the file as it is.
DownloadBody ==
    /\ dpc = "get" /\ gpc = "idle"
    /\ IF result \in {"None", "ValueError"}     \* utils.py:112-113, 136-144
         THEN /\ DownloadReturns("False")
              /\ dlCase' = [NoCase EXCEPT !.fetch = result]
              /\ UNCHANGED << dest, tfaults >>
         ELSE \E body \in {"full", "empty"},
                 io \in {"ok", "failed", "left", "interrupt"} :
                \* a file can be left cut short only of a body with content
                /\ io \in {"left", "interrupt"} => body = "full"
                /\ LET cost == Cost(body # "full") + Cost(io # "ok") IN
                     tfaults >= cost /\ tfaults' = tfaults - cost
                /\ dlCase' = [fetch |-> "response", body |-> body, io |-> io]
                /\ dest' = Written(body, io)
                /\ DownloadReturns(Verdict(body, io))
    /\ UNCHANGED << now, session, getLocals, getHist, gets, served >>
    /\ UNCHANGED notGet

NextGet ==
    \/ GetCall
    \/ Request
    \/ Response
    \/ DownloadCall
    \/ DownloadBody

SpecGet == InitGet /\ [][NextGet]_vars

\* ----------------------------------------------- papercopilot: data model
\* papercopilot.py:343-357  a cleaned record: its id, whether pdf_url is a
\* URL, whether pdf_path is a path, and pdf_downloaded.
PRecord(id, hasUrl, got) ==
    [id |-> id, pdf_url |-> hasUrl, pdf_path |-> got, pdf_downloaded |-> got]

\* papercopilot.py:290-292  the stored record after a successful retry
Fetched(rec) == [rec EXCEPT !.pdf_path = TRUE, !.pdf_downloaded = TRUE]

Ids(l) == { l[k].id : k \in 1..Len(l) }

\* papercopilot.py:226  existing_papers_by_id: of several records with one
\* id the dict keeps the last.
ById(l, id) ==
    l[CHOOSE k \in 1..Len(l) :
        l[k].id = id /\ \A j \in (k + 1)..Len(l) : l[j].id # id]

\* papercopilot.py:124-128  whether get_pdf_url yields a URL for a raw entry
get_pdf_url(id) == iclr \/ id \notin noPdf

\* papercopilot.py:244-245  a prior record is retried when it has no
\* downloaded document and the raw entry has a 'pdf' value.
NeedsRetry(rec, id) ==
    (~rec.pdf_downloaded \/ ~rec.pdf_path) /\ id \notin noPdf

\* papercopilot.py:240-251  the group of one entry of the raw list
Group(l, id) ==
    IF id \in Ids(l)
      THEN IF NeedsRetry(ById(l, id), id) THEN "retry" ELSE "complete"
      ELSE "new"

\* papercopilot.py:240  "for paper in papers[start_index:]"
Considered(s) == SubSeq(raw_papers, s + 1, Len(raw_papers))

\* the entries of the raw list, from start_index on, that fall in group g
Members(l, s, g) == SelectSeq(Considered(s), LAMBDA id : Group(l, id) = g)

\* papercopilot.py:248, 269, 294, 304  the stored records of a list of ids
Stored(l, ids) == [k \in 1..Len(ids) |-> ById(l, ids[k])]

\* papercopilot.py:297 and 362  "if processed_count % BATCH_SIZE == 0"
PBatchDue(n) == n % BATCH_SIZE = 0

\* papercopilot.py:64-67  save_json opens the file for writing and dumps
\* into it: a call that raises leaves the file as it was (mkdir or open
\* failed) or cut off (the dump failed).
SaveRaised(f, l) == {f, Truncated(l)}

\* papercopilot.py:307  the loop of new papers follows the retry loop
AnyTime == TRUE
NewLoopReached == ri > Len(papers_needing_pdf_retry)

\* ------------------------------------------------- papercopilot: initial
\* A raw list of a few or of more than BATCH_SIZE entries; at most one
\* entry without a 'pdf' value, at most one without a title.
InitConvert ==
    /\ InitCommon /\ listings = Plain /\ NoYears
    /\ sizes = {0} /\ site = 0 /\ faults = 0
    /\ SessionInit(DEFAULT_RETRY_ATTEMPTS, DEFAULT_REQUEST_DELAY)
    /\ served = Responses /\ tfaults = 0
    /\ ConvertIdle /\ NoPair
    /\ \E n \in {BatchSmall, BatchIds} : raw_papers = [k \in 1..n |-> k]
    /\ noPdf \in {{}, {1}} /\ noTitle \in {{}, {2}}
    /\ iclr \in BOOLEAN /\ (iclr => noPdf # {})
    /\ slips = MaxSlips - Cardinality(noPdf) - Cardinality(noTitle)

\* ------------------------------------------------- papercopilot: actions
\* papercopilot.py:186-256  the call up to the loops: the raw file may be
\* missing ("return []"); load_json of the output file returns [] when
\* there is none and raises on a file that is no JSON document; the
\* entries from start_index on are put into the three groups.
PCStart ==
    /\ ppc = "idle" /\ pruns < MaxRuns
    /\ pruns' = pruns + 1
    /\ output0' = output /\ pSaveFailed' = FALSE /\ plog' = << >>
    /\ ri' = 1 /\ ni' = 1
    /\ processed_count' = 0 /\ successful_downloads' = 0
    /\ skipped_downloads' = 0 /\ retry_downloads' = 0
    /\ \E s \in {0, 1}, dn \in BOOLEAN, there \in BOOLEAN :
        /\ s <= Len(raw_papers)
        /\ LET cost == Cost(s > 0) + Cost(dn) + Cost(~there) IN
             slips >= cost /\ slips' = slips - cost
        /\ start_index' = s /\ down' = dn
        /\ CASE ~there ->
                  /\ ppc' = "idle" /\ pOutcome' = "no raw file"
                  /\ preturned' = AList(<< >>)
                  /\ existing_cleaned' = << >> /\ cleaned' = << >>
                  /\ papers_to_process' = << >>
                  /\ papers_needing_pdf_retry' = << >>
             [] there /\ output.st = "partial" ->
                  /\ ppc' = "idle" /\ pOutcome' = "raised"
                  /\ preturned' = NoList
                  /\ existing_cleaned' = << >> /\ cleaned' = << >>
                  /\ papers_to_process' = << >>
                  /\ papers_needing_pdf_retry' = << >>
             [] OTHER ->
                  /\ ppc' = "loop" /\ pOutcome' = "running"
                  /\ preturned' = NoList
                  /\ existing_cleaned' = output.recs
                  /\ cleaned' = Stored(output.recs,
                                       Members(output.recs, s, "complete"))
                  /\ papers_needing_pdf_retry' = Members(output.recs, s, "retry")
                  /\ papers_to_process' = Members(output.recs, s, "new")
    /\ UNCHANGED << praw, pdisk >>
    /\ UNCHANGED notConvert

\* papercopilot.py:130-184  download_pdf: True after the body was written
\* ("ok"); False when the request failed ("fail") or the write did, which
\* leaves what was written ("cut").  Nothing is fetched while the site is
\* down.
Fetches == {"ok", "fail", "cut"}
CanFetch(d) == IF down THEN d = "fail" ELSE TRUE
FetchCost(d) == Cost(~down /\ d # "ok")
AfterFetch(id, d) == IF d = "fail" THEN save_dir ELSE save_dir \cup {id}

\* papercopilot.py:263-305  one iteration of the retry loop.  An exception
\* raised by the periodic save_json is caught by the handler of the
\* iteration, which appends the stored record.
PCRetry ==
    /\ ppc = "loop" /\ ri <= Len(papers_needing_pdf_retry)
    /\ LET id == papers_needing_pdf_retry[ri]
           stored == ById(existing_cleaned, id)
       IN
        IF ~get_pdf_url(id)
          THEN /\ cleaned' = Append(cleaned, stored)
               /\ plog' = Append(plog, [kind |-> "retry", id |-> id, req |-> FALSE])
               /\ UNCHANGED << pdisk, slips, processed_count, retry_downloads,
                               pSaveFailed >>
          ELSE \E d \in Fetches, saved \in BOOLEAN :
                LET rec == IF d = "ok" THEN Fetched(stored) ELSE stored
                    due == PBatchDue(processed_count + 1)
                    cost == FetchCost(d) + Cost(~saved)
                IN  /\ CanFetch(d)
                    /\ ~saved => due
                    /\ slips >= cost /\ slips' = slips - cost
                    /\ save_dir' = AfterFetch(id, d)
                    /\ retry_downloads' = retry_downloads + Cost(d = "ok")
                    /\ processed_count' = processed_count + 1
                    /\ plog' = Append(plog, [kind |-> "retry", id |-> id, req |-> TRUE])
                    /\ pSaveFailed' = (pSaveFailed \/ ~saved)
                    /\ IF saved
                         THEN /\ cleaned' = Append(cleaned, rec)
                              /\ output' = IF due THEN Valid(cleaned') ELSE output
                         ELSE /\ cleaned' = Append(Append(cleaned, rec), rec)
                              /\ output' \in SaveRaised(output, Append(cleaned, rec))
    /\ ri' = ri + 1
    /\ UNCHANGED << praw, pruns, ppc, pargs, existing_cleaned, papers_to_process,
                    papers_needing_pdf_retry, ni, successful_downloads,
                    skipped_downloads, pOutcome, preturned, output0 >>
    /\ UNCHANGED notConvert

\* papercopilot.py:308-369  one iteration of the loop of new papers.  An
\* entry without a title raises KeyError, and an exception of the periodic
\* save_json is raised after the append: the handler of the iteration
\* goes on to the next entry in both cases.
PCNew ==
    /\ ppc = "loop" /\ NewLoopReached /\ ni <= Len(papers_to_process)
    /\ LET id == papers_to_process[ni] IN
        IF id \in noTitle
          THEN /\ plog' = Append(plog, [kind |-> "new", id |-> id, req |-> FALSE])
               /\ UNCHANGED << pdisk, slips, cleaned, processed_count,
                               successful_downloads, skipped_downloads,
                               pSaveFailed >>
          ELSE \E d \in Fetches, saved \in BOOLEAN :
                LET have == id \in save_dir                  \* line 335
                    try == ~have /\ get_pdf_url(id)           \* line 338
                    got == have \/ (try /\ d = "ok")
                    due == PBatchDue(processed_count + 1)
                    cost == Cost(try /\ FetchCost(d) = 1) + Cost(~saved)
                IN  /\ try => CanFetch(d)
                    /\ ~try => d = "ok"
                    /\ ~saved => due
                    /\ slips >= cost /\ slips' = slips - cost
                    /\ save_dir' = IF try THEN AfterFetch(id, d) ELSE save_dir
                    /\ skipped_downloads' = skipped_downloads + Cost(have)
                    /\ successful_downloads' =
                          successful_downloads + Cost(try /\ d = "ok")
                    /\ cleaned' = Append(cleaned, PRecord(id, get_pdf_url(id), got))
                    /\ processed_count' = processed_count + 1
                    /\ plog' = Append(plog, [kind |-> "new", id |-> id, req |-> try])
                    /\ pSaveFailed' = (pSaveFailed \/ ~saved)
                    /\ IF saved
                         THEN output' = IF due THEN Valid(cleaned') ELSE output
                         ELSE output' \in SaveRaised(output, cleaned')
    /\ ni' = ni + 1
    /\ UNCHANGED << praw, pruns, ppc, pargs, existing_cleaned, papers_to_process,
                    papers_needing_pdf_retry, ri, retry_downloads, pOutcome,
                    preturned, output0 >>
    /\ UNCHANGED notConvert

\* papercopilot.py:371-376  the final save_json and the printed counts; the
\* function ends without a return statement.  An exception of this
\* save_json leaves the function.
PCFinal ==
    /\ ppc = "loop" /\ NewLoopReached /\ ni > Len(papers_to_process)
    /\ ppc' = "idle"
    /\ \E saved \in BOOLEAN :
        /\ slips >= Cost(~saved) /\ slips' = slips - Cost(~saved)
        /\ pSaveFailed' = (pSaveFailed \/ ~saved)
        /\ IF saved
             THEN /\ output' = Valid(cleaned)
                  /\ pOutcome' = "returned"
             ELSE /\ output' \in SaveRaised(output, cleaned)
                  /\ pOutcome' = "raised"
    /\ preturned' = NoList
    /\ UNCHANGED << praw, save_dir, pruns, pargs, plocals, plog, output0 >>
    /\ UNCHANGED notConvert

\* A KeyboardInterrupt.  The retry loop has no handler for it, so it leaves
\* the function at once (papercopilot.py:263-305); the loop of new papers
\* saves the accumulated list and raises it again (papercopilot.py:364-367);
\* after the loops it meets the final save_json.
PCInterrupt ==
    /\ ppc = "loop" /\ slips > 0 /\ slips' = slips - 1
    /\ ppc' = "idle" /\ pOutcome' = "interrupted"
    /\ output' \in CASE ~NewLoopReached -> {output}
                     [] ni <= Len(papers_to_process) -> {Valid(cleaned)}
                     [] OTHER -> SaveRaised(output, cleaned)
    /\ UNCHANGED << praw, save_dir, pruns, pargs, plocals, preturned, plog,
                    output0, pSaveFailed >>
    /\ UNCHANGED notConvert

NextConvert ==
    \/ PCStart
    \/ PCRetry
    \/ PCNew
    \/ PCFinal
    \/ PCInterrupt

SpecConvert == InitConvert /\ [][NextConvert]_vars


\* ------------------------------------------------ two runs: init, actions
\* Two distinct partitions, each with a short or a long listing, and an
\* empty data directory.
InitPair ==
    /\ InitCommon /\ listings = Plain /\ NoYears
    /\ sizes = {0} /\ site = 0 /\ faults = 0
    /\ SessionInit(DEFAULT_RETRY_ATTEMPTS, DEFAULT_REQUEST_DELAY)
    /\ served = Responses /\ tfaults = 0
    /\ NoConvert
    /\ qpart \in { f \in [Runners -> Partitions] : f[1] # f[2] }
    /\ qlen \in [Runners -> {BatchSmall, BatchIds}]
    /\ qfs = [x \in MetadataPaths |-> Absent] /\ qpdfs = {}
    /\ qpc = [r \in Runners |-> "idle"] /\ qret = [r \in Runners |-> "loop"]
    /\ qpapers = [r \in Runners |-> << >>]
    /\ qi = [r \in Runners |-> 1] /\ qnew = [r \in Runners |-> 0]
    /\ qreqs = [r \in Runners |-> 0] /\ qsaved = [r \in Runners |-> << >>]

\* base.py:75-96  scrape_year begins: load_papers of the partition
QStart(r) ==
    /\ qpc[r] = "idle"
    /\ qpc' = [qpc EXCEPT ![r] = "loop"]
    /\ qpapers' = [qpapers EXCEPT ![r] = load_papers(qfs[cp(r)])]
    /\ UNCHANGED << qpart, qlen, qfs, qpdfs, qret, qi, qnew, qreqs, qsaved >>
    /\ UNCHANGED notPair

\* base.py:98-136  one iteration: parse, download unless the file exists
\* (utils.py:107), append, periodic save
QItem(r) ==
    /\ qpc[r] = "loop" /\ qi[r] <= qlen[r]
    /\ LET path == PdfPath(qpart[r][1], qpart[r][2], qi[r])
           have == path \in qpdfs
       IN  /\ qreqs' = [qreqs EXCEPT ![r] = @ + Cost(~have)]
           /\ qpdfs' = qpdfs \cup {path}
    /\ qpapers' = [qpapers EXCEPT ![r] = Append(@, QRecord(qpart[r], qi[r]))]
    /\ qnew' = [qnew EXCEPT ![r] = @ + 1]
    /\ qi' = [qi EXCEPT ![r] = @ + 1]
    /\ qpc' = [qpc EXCEPT ![r] = IF BatchDue(qnew'[r]) THEN "save0" ELSE "loop"]
    /\ qret' = [qret EXCEPT ![r] = "loop"]
    /\ UNCHANGED << qpart, qlen, qfs, qsaved >>
    /\ UNCHANGED notPair

\* base.py:143-144  the final save_papers call begins
QFinal(r) ==
    /\ qpc[r] = "loop" /\ qi[r] > qlen[r]
    /\ qpc' = [qpc EXCEPT ![r] = "save0"]
    /\ qret' = [qret EXCEPT ![r] = "done"]
    /\ UNCHANGED << qpart, qlen, qfs, qpdfs, qpapers, qi, qnew, qreqs, qsaved >>
    /\ UNCHANGED notPair

\* utils.py:157-161  the existing file is renamed to the backup path
QRename(r) ==
    /\ qpc[r] = "save0"
    /\ qpc' = [qpc EXCEPT ![r] = "save1"]
    /\ qfs' = IF qfs[cp(r)].st # "absent"
                THEN [qfs EXCEPT ![bk(r)] = qfs[cp(r)], ![cp(r)] = Absent]
                ELSE qfs
    /\ UNCHANGED << qpart, qlen, qpdfs, qret, qpapers, qi, qnew, qreqs, qsaved >>
    /\ UNCHANGED notPair

\* utils.py:163  open(filepath, 'w') creates the file empty
QOpen(r) ==
    /\ qpc[r] = "save1"
    /\ qpc' = [qpc EXCEPT ![r] = "save2"]
    /\ qfs' = [qfs EXCEPT ![cp(r)] = Partial]
    /\ UNCHANGED << qpart, qlen, qpdfs, qret, qpapers, qi, qnew, qreqs, qsaved >>
    /\ UNCHANGED notPair

\* utils.py:164  json.dump completes; save_papers returns
QWrite(r) ==
    /\ qpc[r] = "save2"
    /\ qpc' = [qpc EXCEPT ![r] = qret[r]]
    /\ qfs' = [qfs EXCEPT ![cp(r)] = Dumped(qpapers[r])]
    /\ qsaved' = [qsaved EXCEPT ![r] = Append(@, qpapers[r])]
    /\ UNCHANGED << qpart, qlen, qpdfs, qret, qpapers, qi, qnew, qreqs >>
    /\ UNCHANGED notPair

NextPair ==
    \E r \in Runners :
        \/ QStart(r)
        \/ QItem(r)
        \/ QFinal(r)
        \/ QRename(r)
        \/ QOpen(r)
        \/ QWrite(r)

SpecPair == InitPair /\ [][NextPair]_vars

\* --------------------------------------------- both programs side by side
\* scrape_year for one conference year and process_conference_year for
\* another, each over a short list and with one departure from its plain
\* run, in any interleaving.
InitBoth ==
    /\ InitCommon /\ listings = Plain /\ NoYears
    /\ sizes = {BatchSmall} /\ site \in sizes /\ faults = 1
    /\ SessionInit(DEFAULT_RETRY_ATTEMPTS, DEFAULT_REQUEST_DELAY)
    /\ served = Responses /\ tfaults = 0
    /\ ConvertIdle /\ NoPair
    /\ raw_papers = [k \in 1..BatchSmall |-> k]
    /\ iclr = FALSE /\ noPdf = {} /\ noTitle = {}
    /\ slips = 1

NextBoth ==
    \/ Next
    \/ NextConvert

SpecBoth == InitBoth /\ [][NextBoth]_vars

\* ------------------------------------------------- the loops over years
\* base.py:156-174 scrape_multiple_years and papercopilot.py:379-411
\* process_conferences.  Each calls the one-year function for every year of
\* its list; what that call does is modelled above, here it ends in one of
\* the ways found there: it returns (a list, for scrape_year), it raises an
\* Exception, or a KeyboardInterrupt leaves it.
YearLists == UNION { [1..n -> Years] : n \in 0..MaxYears }

\* base.py:150  the list scrape_year returns: n records of the year.
YearPapers(year, n) == [k \in 1..n |-> year]

\* A handler that leaves the dict as it is.
Unrecorded(res, year, l) == res

\* base.py:163 and 171  results[year] = papers
Entry(res, year, l) ==
    { e \in res : e[1] # year } \cup { << year, l >> }

InitLoop ==
    /\ InitCommon /\ listings = Plain
    /\ sizes = {0} /\ site = 0 /\ faults = 0
    /\ SessionInit(DEFAULT_RETRY_ATTEMPTS, DEFAULT_REQUEST_DELAY)
    /\ served = Responses /\ tfaults = 0
    /\ NoConvert /\ NoPair
    /\ years \in YearLists /\ ypc = "loop" /\ yi = 1 /\ results = {}
    /\ ycalls = << >> /\ yreqs = 0 /\ yints = 0 /\ yreturned = "none"

\* base.py:160-162 / papercopilot.py:403-405  the for statement takes the
\* next year and calls the one-year function on self.
YCall ==
    /\ ypc = "loop" /\ yi <= Len(years)
    /\ ypc' = "call"
    /\ ycalls' = Append(ycalls, [year |-> years[yi], first |-> yreqs,
                                 ints |-> yints, out |-> "running",
                                 reqs |-> 0])
    /\ UNCHANGED << years, yi, results, yreqs, yints, yreturned >>
    /\ UNCHANGED notYears

\* How the call in progress ended, and the requests it issued.
Ended(how, n) ==
    /\ ycalls' = [ycalls EXCEPT ![Len(ycalls)].out = how,
                                ![Len(ycalls)].reqs = n]
    /\ yreqs' = yreqs + n

\* base.py:162-163  scrape_year returned its list.
YReturns ==
    /\ ypc = "call"
    /\ \E n \in 0..1 :
        /\ results' = Entry(results, years[yi], YearPapers(years[yi], n))
        /\ Ended("returned", n + 1)
    /\ ypc' = "pause"
    /\ UNCHANGED << years, yi, yints, yreturned >>
    /\ UNCHANGED notYears

\* base.py:165-167  time.sleep(2), then the next year.
YPause ==
    /\ ypc = "pause"
    /\ ypc' = "loop" /\ yi' = yi + 1
    /\ UNCHANGED << years, results, ycalls, yreqs, yints, yreturned >>
    /\ UNCHANGED notYears

\* base.py:169-172  scrape_year raised an Exception: logged, the year gets
\* an empty list, continue.
YRaises ==
    /\ ypc = "call"
    /\ results' = Entry(results, years[yi], << >>)
    /\ \E n \in 0..1 : Ended("raised", n)
    /\ ypc' = "loop" /\ yi' = yi + 1
    /\ UNCHANGED << years, yints, yreturned >>
    /\ UNCHANGED notYears

\* A KeyboardInterrupt during scrape_year or during the pause is no
\* Exception: the clause of base.py:169 does not catch it and it leaves
\* scrape_multiple_years.
YInterrupted ==
    /\ ypc \in {"call", "pause"}
    /\ yints' = yints + 1
    /\ IF ypc = "call" THEN \E n \in 0..1 : Ended("interrupted", n)
                       ELSE UNCHANGED << ycalls, yreqs >>
    /\ ypc' = "over" /\ yreturned' = "KeyboardInterrupt"
    /\ UNCHANGED << years, yi, results >>
    /\ UNCHANGED notYears

\* base.py:174  return results
YEnd ==
    /\ ypc = "loop" /\ yi > Len(years)
    /\ ypc' = "over" /\ yreturned' = "results"
    /\ UNCHANGED << years, yi, results, ycalls, yreqs, yints >>
    /\ UNCHANGED notYears

NextYears ==
    \/ YCall
    \/ YReturns
    \/ YPause
    \/ YRaises
    \/ YInterrupted
    \/ YEnd

SpecYears == InitLoop /\ [][NextYears]_vars

\* papercopilot.py:404-405  process_conference_year returned.
CReturns ==
    /\ ypc = "call"
    /\ \E n \in 0..1 : Ended("returned", n)
    /\ ypc' = "loop" /\ yi' = yi + 1
    /\ UNCHANGED << years, results, yints, yreturned >>
    /\ UNCHANGED notYears

\* papercopilot.py:409-411  an Exception of the call is printed; continue.
CRaises ==
    /\ ypc = "call"
    /\ \E n \in 0..1 : Ended("raised", n)
    /\ ypc' = "loop" /\ yi' = yi + 1
    /\ UNCHANGED << years, results, yints, yreturned >>
    /\ UNCHANGED notYears

\* papercopilot.py:363-366 and 406-408  process_conference_year saves and
\* raises the KeyboardInterrupt again; the except KeyboardInterrupt clause
\* of process_conferences prints where to resume, and the for statement
\* takes the next year.
CInterrupted ==
    /\ ypc = "call"
    /\ yints' = yints + 1
    /\ \E n \in 0..1 : Ended("interrupted", n)
    /\ ypc' = "loop" /\ yi' = yi + 1
    /\ UNCHANGED << years, results, yreturned >>
    /\ UNCHANGED notYears

\* papercopilot.py:403  the list is exhausted: process_conferences returns
\* None to external.py:10-12.
CEnd ==
    /\ ypc = "loop" /\ yi > Len(years)
    /\ ypc' = "over" /\ yreturned' = "None"
    /\ UNCHANGED << years, yi, results, ycalls, yreqs, yints >>
    /\ UNCHANGED notYears

NextConfs ==
    \/ YCall
    \/ CReturns
    \/ CRaises
    \/ CInterrupted
    \/ CEnd

SpecConfs == InitLoop /\ [][NextConfs]_vars

\* ================================================================ claims
AtReturn == pc = "idle" /\ outcome = "returned"
AtInterrupt == pc = "idle" /\ outcome = "interrupted"
InSave == pc \in {"save0", "save1", "save2"}
Complete(r) == r.pdf_path \/ ~r.pdf_url
\* the k-th smallest element of a finite set of numbers
Kth(S, k) == CHOOSE x \in S : Cardinality({ y \in S : y <= x }) = k

\* C1 (as claimed): a run with resume=true that follows a completed run over
\* the same listing, and finds the list that run returned in the checkpoint
\* file, parses nothing, downloads nothing and returns that same list.
C1_ResumeIdempotent ==
    (run >= 2 /\ resume /\ prev.outcome = "returned"
        /\ paper_urls = prev.urls /\ file0 = Valid(prev.returned))
    => /\ parseCalls = {} /\ dlCalls = {}
       /\ AtReturn => returned = prev.returned

\* C2 (as claimed): a resume run that downloads documents hands every listed
\* record the checkpoint holds with a pdf_url and no pdf_path to the
\* Document Fetcher when it comes to it in the listing, and never parses it
\* again.
C2_RetryIncomplete ==
    (run >= 2 /\ resume /\ download_pdfs /\ outcome \in {"running", "returned"})
    => \A p \in 1..Len(paper_urls) :
         \A r \in Range(existing_papers) :
            (r.url = paper_urls[p] /\ r.pdf_url /\ ~r.pdf_path)
            => /\ r.url \notin parseCalls
               /\ p < i => r.url \in dlAttempts

\* C3: in a resume run no complete prior record is parsed or downloaded
\* again, and the record itself is in the accumulated list, in every list
\* given to save_papers, in every checkpoint the run has written and in the
\* returned list.
C3_CompleteCarriedOver ==
    resume =>
      \A r \in Range(existing_papers) :
        Complete(r) =>
          /\ r.url \notin parseCalls
          /\ r.url \notin dlAttempts
          /\ outcome = "running" => r \in Range(papers)
          /\ InSave => r \in Range(lastSave.new)
          /\ (wrote /\ file.st = "valid") => r \in Range(file.recs)
          /\ AtReturn => r \in Range(returned)

\* C3 witness: a resume run has written a periodic checkpoint that holds a
\* complete prior record next to ten new ones.
C3_Witness ==
    /\ resume /\ pc = "loop" /\ wrote /\ new_count = SAVE_EVERY
    /\ file = Valid(papers)
    /\ \E r \in Range(existing_papers) : Complete(r) /\ r \in Range(file.recs)

\* C4 (as claimed): after an interruption at any point of a run, none of
\* whose save_papers calls failed, load_papers returns all but at most the
\* last 10 records of the accumulated list.
C4_LosesAtMostBatch ==
    (AtInterrupt /\ ~saveFailed)
    => Len(papers) - Len(load_papers(file)) <= SAVE_EVERY

\* C5 (as claimed): a run over a non-empty listing that returns or is
\* interrupted has made its final save_papers call first.
C5_FinalSaveAlways ==
    (pc = "idle" /\ outcome \in {"returned", "interrupted"} /\ paper_urls # << >>)
    => finalSaved

\* The accumulated list as it was at the last full batch of new records.
BoundaryList ==
    SubSeq(papers, 1, Len(existing_papers) + SAVE_EVERY * (new_count \div SAVE_EVERY))

\* C6: a run interrupted between two save_papers calls, none of which
\* failed, leaves the checkpoint holding exactly the accumulated list of the
\* last full batch of 10 new records (the file as the run found it when no
\* batch was completed); the resume run that follows parses exactly the
\* identifiers the checkpoint has no record of, and when none of those
\* parses fails it returns a record for every listed identifier.
C6_ResumeAfterInterrupt ==
    /\ (AtInterrupt /\ intAt = "loop" /\ ~saveFailed)
       => file = (IF new_count >= SAVE_EVERY THEN Valid(BoundaryList) ELSE file0)
    /\ (run >= 2 /\ AtReturn /\ resume /\ prev.outcome = "interrupted"
          /\ paper_urls # << >>)
       => /\ parseCalls = Range(paper_urls) \ Urls(load_papers(file0))
          /\ failed_count = 0 => Urls(returned) = Range(paper_urls) \cup Urls(existing_papers)

\* C6 witness: a run was interrupted after 12 new records, the checkpoint
\* held the 10 of the full batch, and the resume run after it has parsed
\* the two other identifiers and returned a record for each of the 12.
C6_Witness ==
    /\ run >= 2 /\ AtReturn /\ resume
    /\ prev.outcome = "interrupted" /\ prev.new_count = 12
    /\ Len(load_papers(file0)) = SAVE_EVERY
    /\ Cardinality(parseCalls) = 2
    /\ Len(returned) = 12

\* C7: no parse outcome makes scrape_year raise (a run that raises has
\* parsed nothing: get_paper_urls raised); a run that returns has
\* gone through the whole listing, every position of it is exactly one of
\* already-present, parsed with a title, skipped as failed; the list it
\* returns holds, after the prior records, exactly one record per position
\* parsed with a title, in listing order; and the final save, unless it
\* failed, left exactly that list in the checkpoint.
C7_SkipIsLocal ==
    /\ outcome = "raised" => parseCalls = {}
    /\ (AtReturn /\ paper_urls # << >>) =>
         /\ i = Len(paper_urls) + 1
         /\ \A p \in 1..Len(paper_urls) :
               Cost(p \in okPos) + Cost(p \in badPos)
                 + Cost(resume /\ paper_urls[p] \in existing_urls) = 1
         /\ failed_count = Cardinality(badPos)
         /\ new_count = Cardinality(okPos)
         /\ Len(papers) = Len(existing_papers) + Cardinality(okPos)
         /\ \A k \in 1..Cardinality(okPos) :
               papers[Len(existing_papers) + k].url = paper_urls[Kth(okPos, k)]
         /\ returned = papers
         /\ ~saveFailed => file = Valid(papers)

\* C7 witness: three identifiers, the second one skipped as failed, two
\* records persisted and returned.
C7_Witness ==
    /\ AtReturn /\ Len(paper_urls) = 3
    /\ badPos = {2} /\ okPos = {1, 3} /\ failed_count = 1
    /\ Len(returned) = 2 /\ file = Valid(returned)

\* C8 (as claimed): scrape_year does not return normally from a run in which
\* a save_papers call failed.
C8_SaveFailureSurfaced ==
    AtReturn => ~saveFailed

\* C9 (as claimed): once a save_papers call is over, completed, failed or
\* cut off, the checkpoint path holds the complete new list or the complete
\* file that was there before the call.
C9_NeverPartial ==
    (lastSave.at # "none" /\ ~InSave)
    => (file = Valid(lastSave.new) \/ file = lastSave.prior)

\* C10: from the rename of a valid checkpoint to the end of the write, and
\* after a save_papers call that was cut off or failed in between, the
\* backup path holds the prior list: a valid record file is on disk.
C10_BackupSurvivesCrash ==
    (lastSave.at \in {"save1", "save2"} /\ lastSave.prior.st = "valid")
    => /\ file.st = "valid" \/ bak.st = "valid"
       /\ load_papers(bak) = lastSave.prior.recs

\* C10 witness: save_papers was cut off inside the write of the new file
\* after it had moved a valid, non-empty checkpoint to the backup path.
C10_Witness ==
    /\ AtInterrupt /\ intAt = "save2"
    /\ lastSave.prior.st = "valid" /\ lastSave.prior.recs # << >>
    /\ file.st = "partial" /\ bak = lastSave.prior

\* C11: a resume run that finds no checkpoint file, or one that is no JSON
\* document (empty or cut off, whatever records its text holds), starts
\* from an empty prior list; the load does not make the run raise: over a
\* non-empty listing it goes on and the list it builds and returns holds
\* the new records only.
C11_LoadEmptyOnCorrupt ==
    (run >= 1 /\ resume /\ file0.st # "valid")
    => /\ existing_papers = << >>
       /\ paper_urls # << >> => outcome # "raised"
       /\ outcome = "running" => Len(papers) = new_count
       /\ AtReturn => Len(returned) = new_count

\* C11 witness: a resume run found a checkpoint cut off with the text of a
\* record in it, and went on to return one record per listed identifier.
C11_Witness ==
    /\ run >= 2 /\ resume /\ AtReturn
    /\ file0.st = "partial" /\ file0.recs # << >>
    /\ paper_urls # << >> /\ Len(returned) = Len(paper_urls)

\* C12 (as claimed): an interrupt raised at any point of a scrape_year run,
\* the removal of a failed download's file included, ends the run as
\* interrupted: the run takes no further step.
C12_InterruptPropagates ==
    (intAt # "none" \/ intSwallowed) => AtInterrupt

\* --------------------------------------------------------- transport claims
Last(s) == s[Len(s)]
GetOver == gpc = "idle" /\ gets > 0

\* C13: any two consecutive requests of the session, retries within one
\* get call and requests of successive get calls alike, whatever the first
\* one came back with, begin at least delay apart.
C13_RequestsSpaced ==
    prevReq >= 0 => reqAt - prevReq >= delay

\* C13 witness: in the second get call of the session, a retry began
\* exactly delay after the request before it.
C13_Witness ==
    /\ gpc = "sent" /\ gets = 2 /\ attempt >= 1
    /\ prevReq >= 0 /\ reqAt - prevReq = delay

\* C14: after a 429 response with retry-after hint h (the header read as a
\* number of seconds, 60 seconds when it is absent) rate_limited_until is the time of that response plus
\* h, and every request the session issues from then on, in the same get
\* call or in a later one, begins at or after that deadline.
C14_RateLimitHonoured ==
    /\ (resps # << >> /\ Last(resps).status = "429"
          /\ Parses(Last(resps).header))
       => rate_limited_until = respAt + TicksPerSecond *
             (IF Last(resps).header = << >> THEN DEFAULT_RETRY_AFTER
                                            ELSE Last(resps).header[1])
    /\ gpc = "sent" => reqAt >= limitMax

\* C14 witness: the first request of a second get call began exactly at
\* the deadline a 429 response without the header had set 60 seconds
\* earlier, in the first call.
C14_Witness ==
    /\ gpc = "sent" /\ gets = 2 /\ attempt = 0
    /\ reqAt = limitMax /\ rate_limited_until = limitMax
    /\ limitMax = respAt + TicksPerSecond * DEFAULT_RETRY_AFTER

\* C15: once a 404 or a 403 response has arrived, on whichever attempt, the
\* get call is over: it has returned None at the time the response
\* arrived, with no sleep and no request after it.
C15_NotFoundTerminal ==
    (resps # << >> /\ Last(resps).status \in {"404", "403"})
    => /\ gpc = "idle" /\ result = "None"
       /\ now = respAt
       /\ Len(resps) = attempt + 1

\* C15 witness: a 404 that answered the retry after a 500 ended its call
\* at once, with no sleep but the one that followed the 500.
C15_Witness ==
    /\ gets = 2 /\ GetOver /\ result = "None"
    /\ Len(resps) = 2 /\ resps[1].status = "500" /\ resps[2].status = "404"
    /\ now = respAt /\ lastSleep = Backoff(0)

\* The retry-after hints and backoff sleeps a get call incurs on the
\* responses s: the hint of each 429, and 2^k seconds for a 5xx, a
\* connection error or a timeout on attempt k (the first attempt is 0).
RECURSIVE Incurred(_)
Incurred(s) ==
    IF s = << >> THEN 0
    ELSE Incurred(SubSeq(s, 1, Len(s) - 1))
         + (CASE Last(s).status = "429" ->
                   TicksPerSecond * (IF Last(s).header = << >>
                                       THEN DEFAULT_RETRY_AFTER
                                       ELSE Last(s).header[1])
              [] Last(s).status \in {"500", "timeout", "connection"} ->
                   TicksPerSecond * Pow2(Len(s) - 1)
              [] OTHER -> 0)

\* C16: a 200 response ends the get call, which returns it; the time from
\* the first request of the call to the return is at least the sum of the
\* retry-after hints and backoff sleeps incurred on the way, which for the
\* responses 429 (retry-after 2), 500, 200 is 2 + 2^1 seconds.
C16_SlowButSuccessful ==
    /\ (resps # << >> /\ Last(resps).status = "200")
       => /\ gpc = "idle" /\ result = "response"
          /\ now - firstReq >= Incurred(resps)
    /\ (Len(resps) = 3 /\ resps[1] = [status |-> "429", header |-> <<2>>]
          /\ resps[2].status = "500" /\ resps[3].status = "200")
       => now - firstReq >= TicksPerSecond * (2 + Pow2(1))

\* C16 witness: get has returned the 200 that followed a 429 with
\* retry-after 2 and a 500, exactly 2 + 2 seconds after its first request.
C16_Witness ==
    /\ GetOver /\ result = "response" /\ Len(resps) = 3
    /\ resps[1] = [status |-> "429", header |-> <<2>>]
    /\ resps[2].status = "500" /\ resps[3].status = "200"
    /\ now - firstReq = TicksPerSecond * 4

\* C17 (as claimed): the backoff sleep has a fixed cap, whatever
\* retry_attempts the session was built with: no sleep is longer than the
\* longest one of a session with the default retry_attempts, 2^3 seconds.
C17_BackoffCapped ==
    lastSleep <= TicksPerSecond * Pow2(DEFAULT_RETRY_ATTEMPTS)

\* Every response of s is a failure get retries after a backoff sleep.
AllRetryable(s) ==
    \A k \in 1..Len(s) : s[k].status \in {"500", "timeout", "connection"}

\* C18 (as claimed): once retry_attempts retryable failures have occurred
\* in a get call, the call is over and has returned None.
C18_FailsAfterMaxRetries ==
    (retry_attempts >= 1 /\ AllRetryable(resps) /\ Len(resps) = retry_attempts)
    => (gpc = "idle" /\ result = "None")

\* C18 (amended): a get call has retry_attempts + 1 attempts.  While its
\* responses are retryable failures and fewer than that, the call goes on
\* to another request; once retry_attempts + 1 retryable failures have
\* occurred it is over and has returned None; it never receives more than
\* retry_attempts + 1 responses.
C18_FailsAfterAllAttempts ==
    /\ Len(resps) <= retry_attempts + 1
    /\ (AllRetryable(resps) /\ resps # << >>) =>
         IF Len(resps) <= retry_attempts
           THEN gpc \in {"attempt", "sent"} /\ attempt = Len(resps)
           ELSE gpc = "idle" /\ result = "None"

\* C18 witness: a session with retry_attempts = 2 has returned None after
\* three retryable failures, the last followed by a sleep of 2^2 seconds.
C18_Witness ==
    /\ GetOver /\ result = "None" /\ retry_attempts = 2
    /\ Len(resps) = 3 /\ AllRetryable(resps)
    /\ lastSleep = TicksPerSecond * 4

\* C19 (as claimed): once a response with a status that is not 2xx and none
\* of 429, 5xx, 404, 403 (a 400, a 401) has arrived, the get call is over:
\* it has returned None without a sleep and without another request.
C19_OtherStatusTerminal ==
    (resps # << >> /\ Last(resps).status = "400")
    => /\ gpc = "idle" /\ result = "None"
       /\ now = respAt

\* C20: a download_file call that finds a file at the destination returns
\* True without calling get and without any request; so of two successive
\* calls for one destination, the first of which found no file and
\* returned True, the first made the one get call of the two and the
\* second issued no request.
C20_ExistingNotFetched ==
    \A k \in 1..Len(dlLog) :
        /\ dlLog[k].dest0 # "absent"
           => (dlLog[k].ret = "True" /\ dlLog[k].gets = 0 /\ dlLog[k].reqs = 0)
        /\ (k < Len(dlLog) /\ dlLog[k].dest0 = "absent" /\ dlLog[k].ret = "True")
           => /\ dlLog[k + 1].ret = "True"
              /\ dlLog[k].gets + dlLog[k + 1].gets = 1
              /\ dlLog[k + 1].reqs = 0

\* C20 witness: two download_file calls, the first fetched the file with
\* one request, the second found it and returned True with none.
C20_Witness ==
    /\ dpc = "idle" /\ Len(dlLog) = 2
    /\ dlLog[1] = [dest0 |-> "absent", gets |-> 1, reqs |-> 1, ret |-> "True"]
    /\ dlLog[2] = [dest0 |-> "complete", gets |-> 0, reqs |-> 0, ret |-> "True"]
    /\ gets = 1

\* ---------------------------------------------------------- download claims
DownloadOver == dpc = "idle" /\ dlLog # << >>

\* C21 (as claimed): a download_file call that found no file returns False
\* when get gave no response, when streaming or writing the body failed,
\* and when the response had an empty body; it raises in none of these.
C21_FalseOnFailure ==
    (DownloadOver /\ Last(dlLog).dest0 = "absent"
        /\ (dlCase.fetch = "None" \/ dlCase.io \in {"failed", "left"}
              \/ dlCase.body = "empty"))
    => Last(dlLog).ret = "False"

\* C22 (as claimed): whenever download_file is not running, having
\* returned or having been cut off by an I/O error or an interrupt during
\* the write, the destination is absent or holds the complete body; no
\* call finds a file cut short and returns True for it.
C22_NoTruncatedFile ==
    /\ dpc = "idle" => dest # "partial"
    /\ \A k \in 1..Len(dlLog) : dlLog[k].dest0 = "partial" => dlLog[k].ret # "True"

\* -------------------------------------------- claims: records and documents
\* the positions of the accumulated list that hold a record of identifier u
Held(l, u) == { k \in 1..Len(l) : l[k].url = u }

\* C24: a listed identifier whose page parsed and whose document download
\* then failed is not counted as failed and not dropped: the accumulated
\* list holds exactly one record of it, with its document URL and without a
\* document path; the loop has moved past it; every list handed to
\* save_papers from then on holds the record, and so does the checkpoint a
\* run leaves when it returns with no save having failed.
C24_FailedDownloadKept ==
    \A p \in 1..Len(paper_urls) :
      paper_urls[p] \in dlFailed =>
        LET u == paper_urls[p] IN
          /\ Cardinality(Held(papers, u)) = 1
          /\ \A k \in Held(papers, u) : papers[k] = Record(u, TRUE, FALSE)
          /\ i > p /\ p \in okPos /\ p \notin badPos
          /\ outcome # "raised"
          /\ InSave => Record(u, TRUE, FALSE) \in Range(lastSave.new)
          /\ (AtReturn /\ ~saveFailed) =>
               /\ Record(u, TRUE, FALSE) \in Range(returned)
               /\ file = Valid(returned)

\* C24 witness: a run over three identifiers returned; the download of the
\* second failed, its record is in the checkpoint without a path, and the
\* third identifier was parsed and its document fetched after it.
C24_Witness ==
    /\ AtReturn /\ Len(paper_urls) = 3 /\ ~saveFailed
    /\ dlFailed = {2} /\ dlCalls = {1, 2, 3}
    /\ returned = << Record(1, TRUE, TRUE), Record(2, TRUE, FALSE),
                     Record(3, TRUE, TRUE) >>
    /\ file = Valid(returned)

\* C26: the file name of a document depends on the identifier and the title
\* alone, so a run that does not consult the checkpoint (resume=false)
\* parses every identifier again, finds the file of every document an
\* earlier run requested and received, issues no request for it, and
\* records its path.
C26_DownloadedDetected ==
    (run >= 2 /\ ~resume /\ download_pdfs)
    => \A p \in 1..Len(paper_urls) :
         (paper_urls[p] \in prev.docs /\ p < i /\ p \in okPos)
         => LET u == paper_urls[p] IN
              /\ u \notin dlCalls /\ u \notin dlFailed
              /\ \A k \in Held(papers, u) : papers[k].pdf_url => papers[k].pdf_path

\* C26 witness: the second run, with resume=false, parsed all three
\* identifiers again; the first run had fetched the documents of the first
\* two, and the second run requested the third only.
C26_Witness ==
    /\ run = 2 /\ ~resume /\ download_pdfs /\ AtReturn
    /\ prev.docs = {1, 2} /\ parseCalls = {1, 2, 3}
    /\ dlAttempts = {1, 2, 3} /\ dlCalls = {3}
    /\ returned = << Record(1, TRUE, TRUE), Record(2, TRUE, TRUE),
                     Record(3, TRUE, TRUE) >>

\* ------------------------------------- claims: process_conference_year
PCRunning == ppc = "loop"
PCReturned == ppc = "idle" /\ pOutcome = "returned"
\* the group of an entry as the specification words it: by the document
\* URL and the download flag of the prior record
WordedGroup(l, id) ==
    IF id \in Ids(l)
      THEN IF ById(l, id).pdf_downloaded \/ ~ById(l, id).pdf_url
             THEN "complete" ELSE "retry"
      ELSE "new"

\* C28 (as claimed): every entry of the list the call walks is in exactly
\* one group: a RetryTask when its prior record has a document URL and no
\* downloaded document, Complete (its prior record already in the output
\* list) when the prior record has its document or no document URL, New
\* when there is no prior record.
C28_ThreeGroups ==
    PCRunning =>
      \A k \in 1..Len(Considered(start_index)) :
        LET id == Considered(start_index)[k]
            g == WordedGroup(existing_cleaned, id)
        IN  /\ (g = "retry") = (id \in Range(papers_needing_pdf_retry))
            /\ (g = "new") = (id \in Range(papers_to_process))
            /\ (g = "complete") =
                 (/\ id \notin Range(papers_needing_pdf_retry)
                  /\ id \notin Range(papers_to_process))
            /\ g = "complete" => ById(existing_cleaned, id) \in Range(cleaned)

\* The case C28 fails on: the conference is 'iclr', the raw entry has no
\* 'pdf' value, its prior record has the URL get_pdf_url built and no
\* downloaded document, and the call has put it with the complete records.
C28_UrlOfRecordIgnored ==
    /\ PCRunning /\ iclr /\ start_index = 0 /\ 1 \in noPdf
    /\ 1 \in Ids(existing_cleaned)
    /\ ById(existing_cleaned, 1) = PRecord(1, TRUE, FALSE)
    /\ papers_needing_pdf_retry = << >>
    /\ PRecord(1, TRUE, FALSE) \in Range(cleaned)

\* the ids of the items of one loop that have been handled, in order
Handled(kind) ==
    LET es == SelectSeq(plog, LAMBDA e : e.kind = kind)
    IN  [k \in 1..Len(es) |-> es[k].id]
Ascending(s) == \A a, b \in 1..Len(s) : a < b => s[a] < s[b]

\* C29: no item of the retry loop is handled after an item of the loop of
\* new papers; each loop handles its items in the order of the raw list;
\* and once a new paper has been handled, and so before any document
\* request for a new paper, every RetryTask has been handled.
C29_RetriesFirst ==
    /\ \A a, b \in 1..Len(plog) :
          a < b => ~(plog[a].kind = "new" /\ plog[b].kind = "retry")
    /\ Handled("retry")
         = SubSeq(papers_needing_pdf_retry, 1, Len(Handled("retry")))
    /\ Handled("new") = SubSeq(papers_to_process, 1, Len(Handled("new")))
    /\ Ascending(papers_needing_pdf_retry) /\ Ascending(papers_to_process)
    /\ Handled("new") # << >>
         => Handled("retry") = papers_needing_pdf_retry

\* C29 witness: a call that found two RetryTasks and more than one new
\* paper has returned; the third item it handled was the first new paper,
\* with a document request.
C29_Witness ==
    /\ PCReturned /\ Len(papers_needing_pdf_retry) = 2
    /\ Len(papers_to_process) > 1
    /\ Len(plog) = 2 + Len(papers_to_process)
    /\ plog[2].kind = "retry" /\ plog[2].req
    /\ plog[3].kind = "new" /\ plog[3].req

\* the positions of a list of records that hold a record of id
HeldById(l, id) == { k \in 1..Len(l) : l[k].id = id }

\* C30 (as claimed): every RetryTask the retry loop has handled has exactly
\* one record in the output list, and that record is the stored one,
\* unchanged or with pdf_path and pdf_downloaded set by a successful
\* download.
C30_RetriedOnce ==
    \A k \in 1..Len(Handled("retry")) :
      LET id == Handled("retry")[k]
          stored == ById(existing_cleaned, id)
      IN  /\ Cardinality(HeldById(cleaned, id)) = 1
          /\ \A j \in HeldById(cleaned, id) :
                cleaned[j] \in {stored, Fetched(stored)}

\* The case C30 fails on: the periodic save_json of the retry loop raised
\* and the record of the item then handled is in the output list twice.
C30_AppendedTwice ==
    /\ PCRunning /\ pSaveFailed /\ ~NewLoopReached
    /\ Len(Handled("retry")) = BATCH_SIZE
    /\ Cardinality(HeldById(cleaned, Handled("retry")[BATCH_SIZE])) = 2

\* papercopilot.py:372-376  the numbers a call prints when it ends: the
\* length of the output list, the documents fetched for new papers, the
\* retries that succeeded, the documents found on disk.
Printed ==
    [total |-> Len(cleaned), downloaded |-> successful_downloads,
     retried |-> retry_downloads, existing |-> skipped_downloads]

\* the new papers the call dropped on an exception
Dropped == { id \in Range(papers_to_process) : id \in noTitle }

\* C27 (as claimed), for process_conference_year: a call that ends
\* normally returns the output list; the list has one record for every
\* entry that was reused, retried or newly parsed and none for a dropped
\* one, so that the printed total and the number of dropped entries sum to
\* the number of entries walked.
C27_CountsCoverList ==
    PCReturned =>
      /\ preturned = AList(cleaned)
      /\ \A k \in 1..Len(Considered(start_index)) :
           LET id == Considered(start_index)[k] IN
             Cardinality(HeldById(cleaned, id)) = Cost(id \notin Dropped)
      /\ Printed.total + Cardinality(Dropped) = Len(Considered(start_index))

\* The case C27 fails on: a first call over a short list, one entry of
\* which has no title, has ended normally and returned no list.
C27_NothingReturned ==
    /\ PCReturned /\ pruns = 1 /\ ~pSaveFailed /\ start_index = 0
    /\ noTitle # {} /\ Len(raw_papers) > Len(cleaned)
    /\ output = Valid(cleaned) /\ preturned = NoList

\* the records a checkpoint file holds, whole or cut off
RecordsIn(f) == Range(f.recs)

\* C23: every record in a checkpoint that scrape_year wrote (the file or
\* its backup) which has pdf_path set names a file that exists, and so
\* does every record of a list that is being written; every record in an
\* output file of process_conference_year with pdf_downloaded true has
\* pdf_path set and its file exists.  (No step removes a document, so a
\* file that exists now existed when the record was written, and
\* conversely.)
C23_PathMeansFile ==
    /\ \A r \in RecordsIn(file) \cup RecordsIn(bak) \cup Range(lastSave.new) :
          r.pdf_path => get_paper_filename(r.url) \in pdfs
    /\ \A r \in RecordsIn(output) :
          r.pdf_downloaded => (r.pdf_path /\ r.id \in save_dir)

\* C23 witness: scrape_year has written a checkpoint with a record that
\* has its path and one whose download failed, and
\* process_conference_year an output file with a record whose retry
\* fetched the document.
C23_Witness ==
    /\ AtReturn /\ file = Valid(<< Record(1, TRUE, TRUE), Record(2, TRUE, FALSE) >>)
    /\ pdfs = {get_paper_filename(1)}
    /\ PCReturned /\ pruns = 2 /\ retry_downloads = 1
    /\ output = Valid(<< PRecord(2, TRUE, TRUE), PRecord(1, TRUE, TRUE) >>)
    /\ save_dir = {1, 2}

\* ------------------------------------------------ claims: two partitions
\* C25: two scrape_year runs for distinct partitions use distinct
\* checkpoint and backup paths, and at every point of every interleaving
\* each run's list, its request count and the files at its two paths are
\* what its own steps made them: when it is done its checkpoint holds the
\* list it builds alone, and its backup the list of its last periodic save.
C25_RunsIndependent ==
    /\ {cp(1), bk(1)} \cap {cp(2), bk(2)} = {}
    /\ \A r \in Runners :
        LET mine == Alone(qpart[r], qlen[r])
            saved == qsaved[r]
            last == IF saved = << >> THEN Absent ELSE Valid(Last(saved))
        IN  /\ qpapers[r] = SubSeq(mine, 1, qi[r] - 1)
            /\ qreqs[r] = qi[r] - 1
            /\ \A k \in 1..Len(saved) : saved[k] = SubSeq(mine, 1, Len(saved[k]))
            /\ qpc[r] \in {"idle", "loop", "save0"} => qfs[cp(r)] = last
            /\ qpc[r] = "save1" =>
                 /\ qfs[cp(r)] = Absent
                 /\ saved # << >> => qfs[bk(r)] = last
            /\ qpc[r] = "save2" => qfs[cp(r)] = Partial
            /\ qpc[r] = "done" =>
                 /\ qfs[cp(r)] = Valid(mine)
                 /\ qfs[bk(r)] = IF Len(saved) > 1
                                   THEN Valid(saved[Len(saved) - 1]) ELSE Absent

\* C25 witness: two runs for two years of one conference, each over a
\* listing longer than a batch, are done; each checkpoint holds its run's
\* own list and each backup its run's first ten records.
C25_Witness ==
    /\ qpart[1][1] = qpart[2][1] /\ qpart[1][2] # qpart[2][2]
    /\ \A r \in Runners :
         /\ qpc[r] = "done" /\ qlen[r] = BatchIds
         /\ qfs[cp(r)] = Valid(Alone(qpart[r], BatchIds))
         /\ qfs[bk(r)] = Valid(Alone(qpart[r], SAVE_EVERY))

\* --------------------------------------------- claims: outcomes of get
\* the requests the current get call has issued
Issued == Len(resps) + Cost(gpc = "sent")
Only429(s) == \A k \in 1..Len(s) : s[k].status = "429" /\ Parses(s[k].header)

\* C33: a get call issues at most retry_attempts + 1 requests; every
\* response that does not end the call, a 429 like any other, moves the
\* attempt counter on by one, so the call is over after at most
\* retry_attempts + 1 responses; a call all of whose responses were 429
\* (with a Retry-After that get can read) has issued retry_attempts + 1
\* requests and returned None.
C33_AttemptsBounded ==
    /\ Issued <= retry_attempts + 1
    /\ gpc \in {"attempt", "sent"} =>
         (attempt <= retry_attempts /\ Len(resps) = attempt)
    /\ (GetOver /\ Only429(resps)) =>
         (result = "None" /\ Len(resps) = retry_attempts + 1)

\* C33 witness: a session with retry_attempts = 2 saw 429, 500, 429 and its
\* get call returned None after those three requests.
C33_Witness ==
    /\ GetOver /\ retry_attempts = 2 /\ result = "None"
    /\ Len(resps) = 3 /\ resps[1].status = "429"
    /\ resps[2].status = "500" /\ resps[3].status = "429"

\* C34 (as claimed): whatever the requests of a get call came back with,
\* the call ends by returning a response or None.
C34_ResponseOrNone ==
    GetOver => result \in {"response", "None"}

\* C35: a response get returns has status 200; after a 204 the call goes
\* on to its next attempt, with no sleep, when it has one left, and
\* returns None when it has none.
C35_Only200Returned ==
    /\ (GetOver /\ result = "response") => Last(resps).status = "200"
    /\ (resps # << >> /\ Last(resps).status = "204") =>
         IF Len(resps) <= retry_attempts
           THEN /\ gpc \in {"attempt", "sent"} /\ attempt = Len(resps)
                /\ gpc = "attempt" => now = respAt
           ELSE gpc = "idle" /\ result = "None"

\* C35 witness: the first request came back with 204, the second with 200,
\* and get returned the second response.
C35_Witness ==
    /\ GetOver /\ result = "response" /\ Len(resps) = 2
    /\ resps[1].status = "204" /\ resps[2].status = "200"

\* -------------------------------------------- claims: the checkpoint file
NoRepeat(l) == \A a, b \in 1..Len(l) : l[a].url = l[b].url => a = b

\* C36 (as claimed): whatever the listings of the runs so far, no file at
\* the checkpoint path or the backup path holds two records of one url.
C36_OneRecordPerUrl ==
    NoRepeat(file.recs) /\ NoRepeat(bak.recs)

\* C37 (as claimed): once a save_papers call on the partition has run to
\* its end, then whenever control is outside scrape_year, after whatever
\* saves, failed saves, interrupts and resume runs came later, the
\* checkpoint file or its backup is a complete record list.
C37_OneCopyComplete ==
    (lastSave.done /\ pc = "idle") => (file.st = "valid" \/ bak.st = "valid")

\* C38: a run whose get_paper_urls gave an empty list returns the records
\* it loaded from the checkpoint, has parsed nothing, downloaded nothing
\* and started no save, and has left the checkpoint file, the backup and
\* the PDF directory as they were when it started.
EmptyRun == pc = "idle" /\ outcome = "returned" /\ paper_urls = << >>

C38_EmptyListNoEffect ==
    /\ [](EmptyRun =>
            /\ returned = existing_papers
            /\ returned = (IF resume THEN load_papers(file0) ELSE << >>)
            /\ parseCalls = {} /\ dlAttempts = {} /\ dlCalls = {}
            /\ ~wrote /\ ~saveFailed /\ ~finalSaved
            /\ file = file0)
    /\ [][(pc = "idle" /\ EmptyRun') => UNCHANGED disk]_vars

\* A second run finds the listing empty while the checkpoint holds records.
C38_Witness ==
    /\ EmptyRun /\ run = 2 /\ resume
    /\ file.st = "valid" /\ Len(file.recs) = 2 /\ returned = file.recs

\* The terminal states of the identifier at position k of the listing.
Persisted(k) == paper_urls[k] \in Urls(load_papers(file))
SkippedTerminalError(k) == k \in badPos

\* C39 (as claimed): when a run over a non-empty listing has returned, every
\* identifier of the listing has a record in the checkpoint on disk or was
\* skipped on a parse that failed.
C39_AllTerminal ==
    (AtReturn /\ paper_urls # << >>)
    => \A k \in 1..Len(paper_urls) : Persisted(k) \/ SkippedTerminalError(k)

\* ------------------------------------------- claims: the loops over years
\* The last call made for the year at position k of the list.
LastCallOf(k) ==
    LET same == { j \in 1..Len(ycalls) : ycalls[j].year = years[k] } IN
    ycalls[CHOOSE j \in same : \A h \in same : h <= j]

\* C40: scrape_multiple_years calls scrape_year for the years in the order
\* of the list, every call on the session where the call before left it;
\* after a call that raised an error the loop is at the next year; and the
\* dict it returns has exactly one entry for every year of the list, the
\* empty list for a year whose (last) call raised.
C40_EveryYearAnswered ==
    /\ Len(ycalls) <= Len(years)
    /\ \A k \in 1..Len(ycalls) :
        /\ ycalls[k].year = years[k]
        /\ ycalls[k].first = (IF k = 1 THEN 0
                              ELSE ycalls[k - 1].first + ycalls[k - 1].reqs)
        /\ (k = Len(ycalls) /\ ycalls[k].out = "raised")
           => (yi = k + 1 /\ (ypc = "loop" \/ yreturned = "results"))
    /\ yreturned = "results" =>
        /\ Len(ycalls) = Len(years)
        /\ \A k \in 1..Len(years) :
            /\ Cardinality({ e \in results : e[1] = years[k] }) = 1
            /\ LastCallOf(k).out = "raised" => << years[k], << >> >> \in results
        /\ \A e \in results : e[1] \in Range(years)

\* The first of two years raised and the second was scraped.
C40_Witness ==
    /\ yreturned = "results" /\ Len(years) = 2 /\ years[1] # years[2]
    /\ ycalls[1].out = "raised" /\ ycalls[2].out = "returned"
    /\ results = { << years[1], << >> >>, << years[2], << years[2] >> >> }

\* C32 (as claimed): no call of process_conference_year starts after a user
\* interrupt was delivered during an earlier one, and process_conferences,
\* once over, has handed the interrupt on to its caller.
C32_InterruptStopsAll ==
    /\ \A k \in 1..Len(ycalls) : ycalls[k].ints = 0
    /\ (ypc = "over" /\ yints > 0) => yreturned = "KeyboardInterrupt"

\* ------------------------------- claims: checkpoints of a resumed conversion
\* C31 (as claimed): whenever the output file of a call that found a prior
\* checkpoint is a complete list, written by a batch save, the interrupt
\* handler or the final save, it has a record for every id the prior
\* checkpoint held and the raw list still names.
C31_ResumeKeepsRecords ==
    (pruns > 0 /\ output0.st = "valid" /\ output.st = "valid")
    => \A id \in Ids(output0.recs) \cap Range(raw_papers) : id \in Ids(output.recs)
=============================================================================
